---- MODULE Spec2Model ----
(***************************************************************************)
(* Model of the chess rules engine (class ChessGame) of Chess2.            *)
(* A game is a record with the fields of a ChessGame instance; every       *)
(* method is an operator from a game record (and the call's arguments) to  *)
(* the game record, return value and error flag the method leaves behind.  *)
(***************************************************************************)
EXTENDS Integers, Sequences, FiniteSets, TLC

Rows == 0..7
Cols == 0..7

\* JavaScript null: an empty square, an absent move attribute.
null == [type |-> "null", color |-> "null"]
\* null in a string-valued field (enPassantTarget, move.castling, move.promotion)
nullStr == "null"

Abs(x) == IF x < 0 THEN -x ELSE x

Opponent(color) == IF color = "white" THEN "black" ELSE "white"

Piece(t, c) == [type |-> t, color |-> c]

pieceOrder == <<"rook", "knight", "bishop", "queen", "king", "bishop", "knight", "rook">>

initializeBoard ==
    [row \in Rows |-> [col \in Cols |->
        CASE row = 0 -> Piece(pieceOrder[col + 1], "black")
          [] row = 1 -> Piece("pawn", "black")
          [] row = 6 -> Piece("pawn", "white")
          [] row = 7 -> Piece(pieceOrder[col + 1], "white")
          [] OTHER -> null]]

\* the object {} used as a table from signature to count
EmptyTable == [k \in {} |-> 0]

\* new ChessGame()
NewChessGame ==
    [board |-> initializeBoard,
     currentPlayer |-> "white",
     gameHistory |-> <<>>,
     capturedPieces |-> [white |-> <<>>, black |-> <<>>],
     gameState |-> "playing",
     moveHistory |-> <<>>,
     fiftyMoveRule |-> 0,
     threefoldRepetition |-> EmptyTable,
     castlingRights |-> [white |-> [kingside |-> TRUE, queenside |-> TRUE],
                         black |-> [kingside |-> TRUE, queenside |-> TRUE]],
     enPassantTarget |-> nullStr]

\* The template literal `${row}${col}`.
SquareKey(row, col) == ToString(row) \o ToString(col)

----------------------------------------------------------------------------
\* toFEN and the signature used for repetition tracking

getPieceChar(piece) ==
    CASE piece.type = "pawn" -> "p"
      [] piece.type = "rook" -> "r"
      [] piece.type = "knight" -> "n"
      [] piece.type = "bishop" -> "b"
      [] piece.type = "queen" -> "q"
      [] piece.type = "king" -> "k"

toUpperCase(ch) ==
    CASE ch = "p" -> "P"
      [] ch = "r" -> "R"
      [] ch = "n" -> "N"
      [] ch = "b" -> "B"
      [] ch = "q" -> "Q"
      [] ch = "k" -> "K"

RECURSIVE fenRow(_, _, _, _)
\* the inner loop of toFEN over one row, from column col with emptyCount pending
fenRow(g, row, col, emptyCount) ==
    IF col > 7
    THEN (IF emptyCount > 0 THEN ToString(emptyCount) ELSE "")
    ELSE LET piece == g.board[row][col] IN
         IF piece # null
         THEN (IF emptyCount > 0 THEN ToString(emptyCount) ELSE "")
              \o (IF piece.color = "white"
                  THEN toUpperCase(getPieceChar(piece))
                  ELSE getPieceChar(piece))
              \o fenRow(g, row, col + 1, 0)
         ELSE fenRow(g, row, col + 1, emptyCount + 1)

RECURSIVE fenBoard(_, _)
fenBoard(g, row) ==
    IF row > 7 THEN ""
    ELSE fenRow(g, row, 0, 0) \o (IF row < 7 THEN "/" ELSE "") \o fenBoard(g, row + 1)

fenCastling(g) ==
    LET castling == (IF g.castlingRights.white.kingside THEN "K" ELSE "")
                 \o (IF g.castlingRights.white.queenside THEN "Q" ELSE "")
                 \o (IF g.castlingRights.black.kingside THEN "k" ELSE "")
                 \o (IF g.castlingRights.black.queenside THEN "q" ELSE "")
    IN IF castling = "" THEN "-" ELSE castling

\* Math.ceil(n / 2)
CeilHalf(n) == (n + 1) \div 2

toFEN(g) ==
    fenBoard(g, 0)
    \o " " \o (IF g.currentPlayer = "white" THEN "w" ELSE "b")
    \o " " \o fenCastling(g)
    \o " " \o (IF g.enPassantTarget # nullStr THEN g.enPassantTarget ELSE "-")
    \o " " \o ToString(g.fiftyMoveRule) \o " " \o ToString(CeilHalf(Len(g.moveHistory)))

\* toFEN().split(' ').slice(0, 3).join(' ')
fenKey(g) ==
    fenBoard(g, 0)
    \o " " \o (IF g.currentPlayer = "white" THEN "w" ELSE "b")
    \o " " \o fenCastling(g)

----------------------------------------------------------------------------
\* Move validation

isPathClear(g, fromRow, fromCol, toRow, toCol) ==
    LET rowStep == IF toRow > fromRow THEN 1 ELSE IF toRow < fromRow THEN -1 ELSE 0
        colStep == IF toCol > fromCol THEN 1 ELSE IF toCol < fromCol THEN -1 ELSE 0
        n == IF Abs(toRow - fromRow) > Abs(toCol - fromCol)
             THEN Abs(toRow - fromRow) ELSE Abs(toCol - fromCol)
    IN \A k \in 1..(n - 1) : g.board[fromRow + k * rowStep][fromCol + k * colStep] = null

isPawnMoveValid(g, piece, fromRow, fromCol, toRow, toCol) ==
    LET direction == IF piece.color = "white" THEN -1 ELSE 1
        startRow == IF piece.color = "white" THEN 6 ELSE 1
        rowDiff == toRow - fromRow
        colDiff == Abs(toCol - fromCol)
    IN \/ /\ colDiff = 0
          /\ \/ rowDiff = direction /\ g.board[toRow][toCol] = null
             \/ /\ fromRow = startRow
                /\ rowDiff = 2 * direction
                /\ g.board[toRow][toCol] = null
                /\ g.board[fromRow + direction][fromCol] = null
       \/ /\ colDiff = 1
          /\ rowDiff = direction
          /\ \/ g.board[toRow][toCol] # null /\ g.board[toRow][toCol].color # piece.color
             \/ g.enPassantTarget = SquareKey(toRow, toCol)

findKing(g, color) ==
    LET kings == {rc \in Rows \X Cols : g.board[rc[1]][rc[2]] = Piece("king", color)}
    IN IF kings = {} THEN <<>>
       ELSE CHOOSE k \in kings : \A k2 \in kings : k[1] * 8 + k[2] <= k2[1] * 8 + k2[2]

RECURSIVE isPieceMovementValid(_, _, _, _, _, _)
RECURSIVE isKingMoveValid(_, _, _, _, _, _)
RECURSIVE canCastle(_, _, _)
RECURSIVE isInCheck(_, _)
RECURSIVE wouldBeInCheck(_, _, _, _)

isPieceMovementValid(g, piece, fromRow, fromCol, toRow, toCol) ==
    LET rowDiff == toRow - fromRow
        colDiff == toCol - fromCol
        absRowDiff == Abs(rowDiff)
        absColDiff == Abs(colDiff)
    IN CASE piece.type = "pawn" -> isPawnMoveValid(g, piece, fromRow, fromCol, toRow, toCol)
         [] piece.type = "rook" ->
              (rowDiff = 0 \/ colDiff = 0) /\ isPathClear(g, fromRow, fromCol, toRow, toCol)
         [] piece.type = "bishop" ->
              absRowDiff = absColDiff /\ isPathClear(g, fromRow, fromCol, toRow, toCol)
         [] piece.type = "queen" ->
              (rowDiff = 0 \/ colDiff = 0 \/ absRowDiff = absColDiff)
              /\ isPathClear(g, fromRow, fromCol, toRow, toCol)
         [] piece.type = "knight" ->
              (absRowDiff = 2 /\ absColDiff = 1) \/ (absRowDiff = 1 /\ absColDiff = 2)
         [] piece.type = "king" -> isKingMoveValid(g, piece, fromRow, fromCol, toRow, toCol)
         [] OTHER -> FALSE

isKingMoveValid(g, piece, fromRow, fromCol, toRow, toCol) ==
    LET rowDiff == Abs(toRow - fromRow)
        colDiff == Abs(toCol - fromCol)
    IN IF rowDiff <= 1 /\ colDiff <= 1 THEN TRUE
       ELSE IF rowDiff = 0 /\ colDiff = 2
            THEN canCastle(g, piece.color, IF toCol > fromCol THEN "kingside" ELSE "queenside")
            ELSE FALSE

canCastle(g, color, side) ==
    LET row == IF color = "white" THEN 7 ELSE 0
        kingCol == 4
        rookCol == IF side = "kingside" THEN 7 ELSE 0
        direction == IF side = "kingside" THEN 1 ELSE -1
        between == IF side = "kingside" THEN (kingCol + 1)..(rookCol - 1)
                   ELSE (rookCol + 1)..(kingCol - 1)
    IN /\ g.castlingRights[color][side]
       /\ ~isInCheck(g, color)
       /\ \A col \in between : g.board[row][col] = null
       /\ \A i \in 1..2 : ~wouldBeInCheck(g, color, row, kingCol + i * direction)

isInCheck(g, color) ==
    LET kingPosition == findKing(g, color)
    IN IF kingPosition = <<>> THEN FALSE
       ELSE wouldBeInCheck(g, color, kingPosition[1], kingPosition[2])

wouldBeInCheck(g, color, row, col) ==
    LET opponentColor == Opponent(color)
    IN \E r \in Rows : \E c \in Cols :
          LET piece == g.board[r][c]
          IN /\ piece # null
             /\ piece.color = opponentColor
             /\ isPieceMovementValid(g, piece, r, c, row, col)

\* the board while wouldLeaveKingInCheck tests the move
temporaryMove(g, fromRow, fromCol, toRow, toCol) ==
    [g.board EXCEPT ![toRow][toCol] = g.board[fromRow][fromCol],
                    ![fromRow][fromCol] = null]

wouldLeaveKingInCheck(g, fromRow, fromCol, toRow, toCol) ==
    LET movingPiece == g.board[fromRow][fromCol]
        temp == [g EXCEPT !.board = temporaryMove(g, fromRow, fromCol, toRow, toCol)]
    IN isInCheck(temp, movingPiece.color)

\* restoreBoard with a return before the restore when the king is in check
restoreBoard_returnsEarly(g, fromRow, fromCol, toRow, toCol) ==
    IF wouldLeaveKingInCheck(g, fromRow, fromCol, toRow, toCol)
    THEN temporaryMove(g, fromRow, fromCol, toRow, toCol)
    ELSE g.board

\* the board wouldLeaveKingInCheck leaves behind: "Restore board"
restoreBoard(g, fromRow, fromCol, toRow, toCol) ==
    LET originalPiece == g.board[toRow][toCol]
        movingPiece == g.board[fromRow][fromCol]
        temp == temporaryMove(g, fromRow, fromCol, toRow, toCol)
    IN [temp EXCEPT ![fromRow][fromCol] = movingPiece, ![toRow][toCol] = originalPiece]

\* the checks of isValidMove that come before wouldLeaveKingInCheck
passesMovementRules(g, fromRow, fromCol, toRow, toCol) ==
    IF fromRow < 0 \/ fromRow > 7 \/ fromCol < 0 \/ fromCol > 7
       \/ toRow < 0 \/ toRow > 7 \/ toCol < 0 \/ toCol > 7
    THEN FALSE
    ELSE LET piece == g.board[fromRow][fromCol]
             targetPiece == g.board[toRow][toCol]
         IN /\ piece # null
            /\ piece.color = g.currentPlayer
            /\ ~(targetPiece # null /\ targetPiece.color = piece.color)
            /\ isPieceMovementValid(g, piece, fromRow, fromCol, toRow, toCol)

isValidMove(g, fromRow, fromCol, toRow, toCol) ==
    /\ passesMovementRules(g, fromRow, fromCol, toRow, toCol)
    /\ ~wouldLeaveKingInCheck(g, fromRow, fromCol, toRow, toCol)

\* the game after a call of isValidMove: the board is written only by the
\* temporary move of wouldLeaveKingInCheck and its restore
afterIsValidMove(g, fromRow, fromCol, toRow, toCol) ==
    IF passesMovementRules(g, fromRow, fromCol, toRow, toCol)
    THEN [g EXCEPT !.board = restoreBoard(g, fromRow, fromCol, toRow, toCol)]
    ELSE g

\* hasValidMoves without the test that the king is left in check
hasValidMoves_ignoresCheck(g, color) ==
    \E fromRow \in Rows : \E fromCol \in Cols :
        /\ g.board[fromRow][fromCol] # null
        /\ g.board[fromRow][fromCol].color = color
        /\ \E toRow \in Rows : \E toCol \in Cols :
              passesMovementRules(g, fromRow, fromCol, toRow, toCol)

hasValidMoves(g, color) ==
    \E fromRow \in Rows : \E fromCol \in Cols :
        /\ g.board[fromRow][fromCol] # null
        /\ g.board[fromRow][fromCol].color = color
        /\ \E toRow \in Rows : \E toCol \in Cols :
              isValidMove(g, fromRow, fromCol, toRow, toCol)

\* getAllValidMoves with the loop over toCol stopping one column early
getAllValidMoves_skipsLastColumn(g, color) ==
    {m \in (Rows \X Cols) \X (Rows \X (0..6)) :
        /\ g.board[m[1][1]][m[1][2]] # null
        /\ g.board[m[1][1]][m[1][2]].color = color
        /\ isValidMove(g, m[1][1], m[1][2], m[2][1], m[2][2])}

\* the (from, to) pairs of getAllValidMoves, as a set
getAllValidMoves(g, color) ==
    {m \in (Rows \X Cols) \X (Rows \X Cols) :
        /\ g.board[m[1][1]][m[1][2]] # null
        /\ g.board[m[1][1]][m[1][2]].color = color
        /\ isValidMove(g, m[1][1], m[1][2], m[2][1], m[2][2])}

----------------------------------------------------------------------------
\* Status classification

isThreefoldRepetition(g) ==
    LET currentFen == fenKey(g)
    IN currentFen \in DOMAIN g.threefoldRepetition /\ g.threefoldRepetition[currentFen] >= 3

isInsufficientMaterial(g) ==
    LET squares == {rc \in Rows \X Cols : g.board[rc[1]][rc[2]] # null}
        nonKings == {rc \in squares : g.board[rc[1]][rc[2]].type # "king"}
    IN IF Cardinality(squares) = 2 THEN TRUE
       ELSE IF Cardinality(squares) = 3
            THEN /\ Cardinality(nonKings) = 1
                 /\ \E rc \in nonKings : g.board[rc[1]][rc[2]].type \in {"bishop", "knight"}
            ELSE FALSE

\* the threshold of the move-count rule in updateGameState
FiftyMoveThreshold == 50

\* updateGameState with the test for check in front of the test for checkmate
updateGameState_checkFirst(g) ==
    LET inCheck == isInCheck(g, g.currentPlayer)
        validMoves == hasValidMoves(g, g.currentPlayer)
    IN IF inCheck THEN "check"
       ELSE IF ~validMoves THEN "stalemate"
       ELSE IF g.fiftyMoveRule >= FiftyMoveThreshold THEN "draw"
       ELSE IF isThreefoldRepetition(g) THEN "draw"
       ELSE IF isInsufficientMaterial(g) THEN "draw"
       ELSE "playing"

\* the value updateGameState assigns to gameState
updateGameState(g) ==
    LET inCheck == isInCheck(g, g.currentPlayer)
        validMoves == hasValidMoves(g, g.currentPlayer)
    IN IF inCheck /\ ~validMoves THEN "checkmate"
       ELSE IF ~inCheck /\ ~validMoves THEN "stalemate"
       ELSE IF inCheck THEN "check"
       ELSE IF g.fiftyMoveRule >= FiftyMoveThreshold THEN "draw"
       ELSE IF isThreefoldRepetition(g) THEN "draw"
       ELSE IF isInsufficientMaterial(g) THEN "draw"
       ELSE "playing"

----------------------------------------------------------------------------
\* makeMove

\* updateCastlingRights with a king move clearing the kingside right only
updateCastlingRights_kingsideOnly(rights, piece, fromRow, fromCol) ==
    IF piece.type = "king"
    THEN [rights EXCEPT ![piece.color].kingside = FALSE]
    ELSE rights

\* the castling rights after updateCastlingRights(piece, fromRow, fromCol)
updateCastlingRights(rights, piece, fromRow, fromCol) ==
    IF piece.type = "king"
    THEN [rights EXCEPT ![piece.color] = [kingside |-> FALSE, queenside |-> FALSE]]
    ELSE IF piece.type = "rook"
    THEN IF piece.color = "white" /\ fromRow = 7
         THEN IF fromCol = 0 THEN [rights EXCEPT !.white.queenside = FALSE]
              ELSE IF fromCol = 7 THEN [rights EXCEPT !.white.kingside = FALSE]
              ELSE rights
         ELSE IF piece.color = "black" /\ fromRow = 0
         THEN IF fromCol = 0 THEN [rights EXCEPT !.black.queenside = FALSE]
              ELSE IF fromCol = 7 THEN [rights EXCEPT !.black.kingside = FALSE]
              ELSE rights
         ELSE rights
    ELSE rights

\* what a call leaves behind: the game, the value returned, whether it threw
Outcome(g, ret, err) == [game |-> g, ret |-> ret, err |-> err]

\* the body of makeMove after the isValidMove guard
applyMove(g, fromRow, fromCol, toRow, toCol, promotionPiece) ==
    LET piece0 == g.board[fromRow][fromCol]
        capturedPiece == g.board[toRow][toCol]
        isCastling == piece0.type = "king" /\ Abs(toCol - fromCol) = 2
        side == IF toCol > fromCol THEN "kingside" ELSE "queenside"
        rookFromCol == IF side = "kingside" THEN 7 ELSE 0
        rookToCol == IF side = "kingside" THEN 5 ELSE 3
        \* castling: the content of the corner square goes next to the king
        board1 == IF isCastling
                  THEN [g.board EXCEPT ![toRow][rookToCol] = g.board[toRow][rookFromCol],
                                       ![toRow][rookFromCol] = null]
                  ELSE g.board
        isEnPassant == /\ piece0.type = "pawn"
                       /\ g.enPassantTarget = SquareKey(toRow, toCol)
                       /\ capturedPiece = null
        capturedRow == IF piece0.color = "white" THEN toRow + 1 ELSE toRow - 1
        capturedPawn == board1[capturedRow][toCol]
        board2 == IF isEnPassant THEN [board1 EXCEPT ![capturedRow][toCol] = null] ELSE board1
    IN IF isEnPassant /\ capturedPawn = null
       THEN \* capturedPawn.color throws TypeError; the square written was null already
            Outcome([g EXCEPT !.board = board2], FALSE, TRUE)
       ELSE
       LET captured1 == IF isEnPassant
                        THEN [g.capturedPieces EXCEPT
                                 ![capturedPawn.color] = Append(@, capturedPawn)]
                        ELSE g.capturedPieces
           isPromotion == /\ piece0.type = "pawn"
                          /\ \/ piece0.color = "white" /\ toRow = 0
                             \/ piece0.color = "black" /\ toRow = 7
           \* piece.type = promotionPiece changes the object the move record holds
           piece == IF isPromotion THEN [piece0 EXCEPT !.type = promotionPiece] ELSE piece0
           move == [from |-> [row |-> fromRow, col |-> fromCol],
                    to |-> [row |-> toRow, col |-> toCol],
                    piece |-> piece,
                    captured |-> capturedPiece,
                    castling |-> IF isCastling THEN side ELSE nullStr,
                    enPassant |-> IF isEnPassant THEN capturedPawn ELSE null,
                    promotion |-> IF isPromotion THEN promotionPiece ELSE nullStr]
           enPassantTarget == IF piece0.type = "pawn" /\ Abs(toRow - fromRow) = 2
                              THEN SquareKey(fromRow + (toRow - fromRow) \div 2, fromCol)
                              ELSE nullStr
           board3 == [board2 EXCEPT ![toRow][toCol] = piece, ![fromRow][fromCol] = null]
           captured2 == IF capturedPiece # null
                        THEN [captured1 EXCEPT
                                 ![capturedPiece.color] = Append(@, capturedPiece)]
                        ELSE captured1
           rights == updateCastlingRights(g.castlingRights, piece, fromRow, fromCol)
           fifty == IF piece.type = "pawn" \/ capturedPiece # null
                    THEN 0 ELSE g.fiftyMoveRule + 1
           g1 == [g EXCEPT !.board = board3,
                           !.capturedPieces = captured2,
                           !.castlingRights = rights,
                           !.enPassantTarget = enPassantTarget,
                           !.fiftyMoveRule = fifty,
                           !.moveHistory = Append(@, move),
                           !.currentPlayer = Opponent(g.currentPlayer)]
           g2 == [g1 EXCEPT !.gameState = updateGameState(g1)]
           fen == fenKey(g2)
           table == g2.threefoldRepetition
           g3 == [g2 EXCEPT !.threefoldRepetition =
                     [k \in (DOMAIN table) \cup {fen} |->
                         IF k = fen
                         THEN (IF fen \in DOMAIN table THEN table[fen] ELSE 0) + 1
                         ELSE table[k]]]
       IN Outcome(g3, TRUE, FALSE)

\* makeMove with the promotion type ignored: every promotion gives a queen
makeMove_alwaysQueen(g, fromRow, fromCol, toRow, toCol, promotionPiece) ==
    LET g0 == afterIsValidMove(g, fromRow, fromCol, toRow, toCol)
    IN IF ~isValidMove(g, fromRow, fromCol, toRow, toCol)
       THEN Outcome(g0, FALSE, FALSE)
       ELSE applyMove(g0, fromRow, fromCol, toRow, toCol, "queen")

makeMove(g, fromRow, fromCol, toRow, toCol, promotionPiece) ==
    LET g0 == afterIsValidMove(g, fromRow, fromCol, toRow, toCol)
    IN IF ~isValidMove(g, fromRow, fromCol, toRow, toCol)
       THEN Outcome(g0, FALSE, FALSE)
       ELSE applyMove(g0, fromRow, fromCol, toRow, toCol, promotionPiece)

----------------------------------------------------------------------------
\* undoMove

\* the body of undoMove after the guard on the empty log
revertMove(g) ==
    LET lastMove == g.moveHistory[Len(g.moveHistory)]
        history == SubSeq(g.moveHistory, 1, Len(g.moveHistory) - 1)
        \* lastMove.piece.type = 'pawn' acts on the object put back on the origin
        restored == IF lastMove.promotion # nullStr
                    THEN [lastMove.piece EXCEPT !.type = "pawn"] ELSE lastMove.piece
        board1 == [g.board EXCEPT ![lastMove.from.row][lastMove.from.col] = lastMove.piece,
                                  ![lastMove.to.row][lastMove.to.col] = lastMove.captured]
        row == IF lastMove.piece.color = "white" THEN 7 ELSE 0
        rookFromCol == IF lastMove.castling = "kingside" THEN 5 ELSE 3
        rookToCol == IF lastMove.castling = "kingside" THEN 7 ELSE 0
        board2 == IF lastMove.castling # nullStr
                  THEN [board1 EXCEPT ![row][rookToCol] = board1[row][rookFromCol],
                                      ![row][rookFromCol] = null]
                  ELSE board1
        capturedRow == IF lastMove.piece.color = "white"
                       THEN lastMove.to.row + 1 ELSE lastMove.to.row - 1
        board3 == IF lastMove.enPassant # null
                  THEN [board2 EXCEPT ![capturedRow][lastMove.to.col] = lastMove.enPassant]
                  ELSE board2
        Pop(s) == SubSeq(s, 1, Len(s) - 1)
        captured1 == IF lastMove.enPassant # null
                     THEN [g.capturedPieces EXCEPT ![lastMove.enPassant.color] = Pop(@)]
                     ELSE g.capturedPieces
        board4 == IF lastMove.promotion # nullStr
                     /\ board3[lastMove.from.row][lastMove.from.col] = lastMove.piece
                  THEN [board3 EXCEPT ![lastMove.from.row][lastMove.from.col] = restored]
                  ELSE board3
        captured2 == IF lastMove.captured # null /\ lastMove.enPassant = null
                     THEN [captured1 EXCEPT ![lastMove.captured.color] = Pop(@)]
                     ELSE captured1
        g1 == [g EXCEPT !.moveHistory = history,
                        !.board = board4,
                        !.capturedPieces = captured2,
                        !.currentPlayer = Opponent(g.currentPlayer)]
    IN Outcome([g1 EXCEPT !.gameState = updateGameState(g1)], TRUE, FALSE)

\* undoMove with the side to move switched before the guard on the empty log
undoMove_switchesPlayerFirst(g) ==
    IF Len(g.moveHistory) = 0
    THEN Outcome([g EXCEPT !.currentPlayer = Opponent(g.currentPlayer)], FALSE, FALSE)
    ELSE revertMove(g)

\* undoMove without the pops of the captured pieces
undoMove_keepsCapturedLists(g) ==
    IF Len(g.moveHistory) = 0 THEN Outcome(g, FALSE, FALSE)
    ELSE LET keeps(out) ==
                Outcome([out.game EXCEPT !.capturedPieces = g.capturedPieces],
                        out.ret, out.err)
         IN keeps(revertMove(g))

undoMove(g) ==
    IF Len(g.moveHistory) = 0 THEN Outcome(g, FALSE, FALSE)
    ELSE revertMove(g)
----------------------------------------------------------------------------
\* The search of ChessAI (ai-engine.js).  A game the search works on is a
\* state: a ChessGame together with the containers (arrays and objects
\* reachable from its fields) it holds by reference in common with the game
\* that was passed to the search.  A write to such a container is a write to
\* the game passed.

Containers == {"board", "capturedPieces", "castlingRights", "moveHistory", "threefoldRepetition"}

\* cloneGameState with the repetition table assigned instead of spread
cloneGameState_sharesRepetitionTable(gameState) ==
    [game |-> [NewChessGame EXCEPT !.board = gameState.board,
                                   !.currentPlayer = gameState.currentPlayer,
                                   !.gameState = gameState.gameState,
                                   !.capturedPieces = gameState.capturedPieces,
                                   !.castlingRights = gameState.castlingRights,
                                   !.enPassantTarget = gameState.enPassantTarget,
                                   !.fiftyMoveRule = gameState.fiftyMoveRule,
                                   !.moveHistory = gameState.moveHistory,
                                   !.threefoldRepetition = gameState.threefoldRepetition],
     shares |-> {"threefoldRepetition"}]

\* cloneGameState: a new ChessGame with the fields of gameState; the board is
\* cloned square by square, the captured lists, the rights of each colour, the
\* move log and the repetition table are spread into new containers, so the
\* clone has no container in common with gameState
cloneGameState(gameState) ==
    [game |-> [NewChessGame EXCEPT !.board = gameState.board,
                                   !.currentPlayer = gameState.currentPlayer,
                                   !.gameState = gameState.gameState,
                                   !.capturedPieces = gameState.capturedPieces,
                                   !.castlingRights = gameState.castlingRights,
                                   !.enPassantTarget = gameState.enPassantTarget,
                                   !.fiftyMoveRule = gameState.fiftyMoveRule,
                                   !.moveHistory = gameState.moveHistory,
                                   !.threefoldRepetition = gameState.threefoldRepetition],
     shares |-> {}]

\* the clone of a state: it has in common with the game passed to the search
\* what it has in common with the state and the state with that game
cloneState(state) ==
    LET cloned == cloneGameState(state.game)
    IN [cloned EXCEPT !.shares = @ \cap state.shares]

\* the game passed to the search after a call changed a state from it to
\* `after`: the containers in common hold what the call wrote
writeThrough(passed, shares, after) ==
    IF shares = {} THEN passed
    ELSE [passed EXCEPT
            !.board = IF "board" \in shares THEN after.board ELSE @,
            !.capturedPieces = IF "capturedPieces" \in shares THEN after.capturedPieces ELSE @,
            !.castlingRights = IF "castlingRights" \in shares THEN after.castlingRights ELSE @,
            !.moveHistory = IF "moveHistory" \in shares THEN after.moveHistory ELSE @,
            !.threefoldRepetition =
                IF "threefoldRepetition" \in shares THEN after.threefoldRepetition ELSE @]

\* a move as getAllValidMoves lists it, and the absence of a move (null)
NoMove == <<<<-1, -1>>, <<-1, -1>>>>

\* state.makeMove(move.from.row, move.from.col, move.to.row, move.to.col)
moveOn(state, move) ==
    LET result(out) ==
           [state |-> [state EXCEPT !.game = out.game], ret |-> out.ret, err |-> out.err]
    IN result(makeMove(state.game, move[1][1], move[1][2], move[2][1], move[2][2], "queen"))

\* values of positions are fractions <<numerator, denominator>>
RECURSIVE GCD(_, _)
GCD(a, b) == IF b = 0 THEN a ELSE GCD(b, a % b)

Fraction(n, d) == LET g == GCD(n, d) IN IF g = 0 THEN <<0, 1>> ELSE <<n \div g, d \div g>>

Plus(x, y) == Fraction(x[1] * y[2] + y[1] * x[2], x[2] * y[2])

OneMinus(x) == Fraction(x[2] - x[1], x[2])

pieceValues ==
    [pawn |-> 1, knight |-> 3, bishop |-> 3, rook |-> 5, queen |-> 9, king |-> 0]

RECURSIVE materialOf(_, _, _)
\* the sum of the values of the pieces of a colour on the squares
materialOf(board, color, squares) ==
    IF squares = {} THEN 0
    ELSE LET rc == CHOOSE x \in squares : TRUE
             piece == board[rc[1]][rc[2]]
         IN (IF piece # null /\ piece.color = color THEN pieceValues[piece.type] ELSE 0)
            + materialOf(board, color, squares \ {rc})

evaluateMaterial(gameState, player) ==
    LET playerMaterial == materialOf(gameState.board, player, Rows \X Cols)
        opponentMaterial == materialOf(gameState.board, Opponent(player), Rows \X Cols)
        totalMaterial == playerMaterial + opponentMaterial
    IN IF totalMaterial = 0 THEN <<1, 2>> ELSE Fraction(playerMaterial, totalMaterial)

evaluateTerminalPosition(gameState, originalPlayer) ==
    IF gameState.gameState = "checkmate"
    THEN (IF gameState.currentPlayer = originalPlayer THEN <<0, 1>> ELSE <<1, 1>>)
    ELSE IF gameState.gameState \in {"stalemate", "draw"} THEN <<1, 2>>
    ELSE evaluateMaterial(gameState, originalPlayer)

\* new MCTSNode(gameState, move, parent); parent 0 is no parent
MCTSNode(state, move, parent) ==
    [gameState |-> state, move |-> move, parent |-> parent, children |-> <<>>,
     visits |-> 0, wins |-> <<0, 1>>,
     isTerminal |-> state.game.gameState \in {"checkmate", "stalemate", "draw"}]

isFullyExpanded(nodes, n) ==
    \/ nodes[n].isTerminal
    \/ Len(nodes[n].children)
          = Cardinality(getAllValidMoves(nodes[n].gameState.game,
                                         nodes[n].gameState.game.currentPlayer))

\* the children selectBestChild can return: the first child never visited,
\* whose UCT value is Infinity, when there is one; otherwise a child of
\* greatest UCT value, which the model leaves open among all children
selectBestChild(nodes, n) ==
    LET children == nodes[n].children
        unvisited == {i \in DOMAIN children : nodes[children[i]].visits = 0}
    IN IF unvisited # {}
       THEN {children[CHOOSE i \in unvisited : \A j \in unvisited : i <= j]}
       ELSE {children[i] : i \in DOMAIN children}

RECURSIVE selected(_, _)
\* the nodes the selection loop of selectAndExpand can stop at, from node n;
\* 0 stands for the TypeError of reduce when a node to descend from has no
\* children
selected(nodes, n) ==
    IF ~nodes[n].isTerminal /\ isFullyExpanded(nodes, n)
    THEN IF Len(nodes[n].children) = 0 THEN {0}
         ELSE UNION {selected(nodes, c) : c \in selectBestChild(nodes, n)}
    ELSE {n}

\* unexploredMoves without the filter on the moves of the children
unexploredMoves_notFiltered(nodes, n) ==
    getAllValidMoves(nodes[n].gameState.game, nodes[n].gameState.game.currentPlayer)

\* the valid moves of node n that no child of it has
unexploredMoves(nodes, n) ==
    getAllValidMoves(nodes[n].gameState.game, nodes[n].gameState.game.currentPlayer)
       \ {nodes[nodes[n].children[i]].move : i \in DOMAIN nodes[n].children}

RECURSIVE backpropagate_sameResultForParent(_, _, _)
\* backpropagate passing result, not 1 - result, to the parent
backpropagate_sameResultForParent(nodes, n, result) ==
    LET updated == [nodes EXCEPT ![n].visits = @ + 1, ![n].wins = Plus(@, result)]
    IN IF nodes[n].parent # 0
       THEN backpropagate_sameResultForParent(updated, nodes[n].parent, result)
       ELSE updated

RECURSIVE backpropagate(_, _, _)
\* the nodes after backpropagate(result) on node n
backpropagate(nodes, n, result) ==
    LET updated == [nodes EXCEPT ![n].visits = @ + 1, ![n].wins = Plus(@, result)]
    IN IF nodes[n].parent # 0
       THEN backpropagate(updated, nodes[n].parent, OneMinus(result))
       ELSE updated

\* bestChild with >= in the comparison of reduce: the last of the most visited
bestChild_lastOfMostVisited(nodes) ==
    LET children == nodes[1].children
        best == CHOOSE i \in DOMAIN children :
                   /\ \A j \in DOMAIN children :
                         nodes[children[j]].visits <= nodes[children[i]].visits
                   /\ \A j \in (i + 1)..Len(children) :
                         nodes[children[j]].visits < nodes[children[i]].visits
    IN children[best]

\* the child search returns the move of: the first of the most visited
bestChild(nodes) ==
    LET children == nodes[1].children
        best == CHOOSE i \in DOMAIN children :
                   /\ \A j \in DOMAIN children :
                         nodes[children[j]].visits <= nodes[children[i]].visits
                   /\ \A j \in 1..(i - 1) :
                         nodes[children[j]].visits < nodes[children[i]].visits
    IN children[best]

\* the constants of ChessAI
maxSimulations == 1000

maxDepth == 50

----------------------------------------------------------------------------
\* The games played on one ChessGame instance.  Every game starts from
\* new ChessGame(); the calls follow one of the lines below; at the points named
\* in Open the game may leave its line and go on freely for MaxFree calls: a
\* move of any piece of the side to move to any square, or an undo.

Mv(fromRow, fromCol, toRow, toCol) ==
    [op |-> "makeMove", fromRow |-> fromRow, fromCol |-> fromCol,
     toRow |-> toRow, toCol |-> toCol, promotionPiece |-> "queen"]

Pr(fromRow, fromCol, toRow, toCol, promotionPiece) ==
    [op |-> "makeMove", fromRow |-> fromRow, fromCol |-> fromCol,
     toRow |-> toRow, toCol |-> toCol, promotionPiece |-> promotionPiece]

Un == [op |-> "undoMove", fromRow |-> 0, fromCol |-> 0,
       toRow |-> 0, toCol |-> 0, promotionPiece |-> "queen"]

\* the lines
\*   f2f3 e7e5 g2g4 d8h4
FoolsMate ==
    <<Mv(6,5,5,5), Mv(1,4,3,4), Mv(6,6,4,6), Mv(0,3,4,7)>>

\*   g1h3 f7f5 e2e3 f5f4 f1d3 f4f3 d1e2 f3e2 e1g1
CastleThroughPawnAttack ==
    <<Mv(7,6,5,7), Mv(1,5,3,5), Mv(6,4,5,4), Mv(3,5,4,5), Mv(7,5,5,3), Mv(4,5,5,5),
      Mv(7,3,6,4), Mv(5,5,6,4), Mv(7,4,7,6)>>

\*   e2e4 a7a5 e4e5 a5a4 e1e2 a8a5 e2e3 b8a6 e3f4 a6b8 f4g5 d7d5
\*   e5d6
EnPassantPin ==
    <<Mv(6,4,4,4), Mv(1,0,3,0), Mv(4,4,3,4), Mv(3,0,4,0), Mv(7,4,6,4), Mv(0,0,3,0),
      Mv(6,4,5,4), Mv(0,1,2,0), Mv(5,4,4,5), Mv(2,0,0,1), Mv(4,5,3,6), Mv(1,3,3,3),
      Mv(3,4,2,3)>>

\*   g1f3 g8f6 f3g1 f6g8 g1f3 g8f6 f3g1 f6g8 g1f3 g8f6 f3g1 f6g8
\*   g1f3 g8f6 f3g1 f6g8
Repetition ==
    <<Mv(7,6,5,5), Mv(0,6,2,5), Mv(5,5,7,6), Mv(2,5,0,6), Mv(7,6,5,5), Mv(0,6,2,5),
      Mv(5,5,7,6), Mv(2,5,0,6), Mv(7,6,5,5), Mv(0,6,2,5), Mv(5,5,7,6), Mv(2,5,0,6),
      Mv(7,6,5,5), Mv(0,6,2,5), Mv(5,5,7,6), Mv(2,5,0,6)>>

\*   e2e3 a7a5 d1h5 a8a6 h5a5 h7h5 h2h4 a6h6 a5c7 f7f6 c7d7 e8f7
\*   d7b7 d8d3 b7b8 d3h7 b8c8 f7g6 c8e6
LoydStalemate ==
    <<Mv(6,4,5,4), Mv(1,0,3,0), Mv(7,3,3,7), Mv(0,0,2,0), Mv(3,7,3,0), Mv(1,7,3,7),
      Mv(6,7,4,7), Mv(2,0,2,7), Mv(3,0,1,2), Mv(1,5,2,5), Mv(1,2,1,3), Mv(0,4,1,5),
      Mv(1,3,1,1), Mv(0,3,5,3), Mv(1,1,0,1), Mv(5,3,1,7), Mv(0,1,0,2), Mv(1,5,2,6),
      Mv(0,2,2,4)>>

\*   g1f3 b8a6 b1c3 g8h6 c3e4 h6g4 e4c3 a6b4 c3a4 b4a6 a4c5 g4e3
\*   f3e5 a6b4 c5e6 e3g4 e6f4 g4e3 e5c6 e3f5 f4d5 f5d4 c6e5 d4b5
\*   e5c4 b5c3 d5e3 c3b5 c4e5 b5d4 e5g4 b4c6 g4h6 d4e6 h6g8 e6g5
\*   e3d5 c6a5 d5b4 a5b3 b4d5 b3c5 d5b6 c5a4 b6c4 g5h3 c4e3 a4c5
\*   e3g4 h3g1
FiftyMoves ==
    <<Mv(7,6,5,5), Mv(0,1,2,0), Mv(7,1,5,2), Mv(0,6,2,7), Mv(5,2,4,4), Mv(2,7,4,6),
      Mv(4,4,5,2), Mv(2,0,4,1), Mv(5,2,4,0), Mv(4,1,2,0), Mv(4,0,3,2), Mv(4,6,5,4),
      Mv(5,5,3,4), Mv(2,0,4,1), Mv(3,2,2,4), Mv(5,4,4,6), Mv(2,4,4,5), Mv(4,6,5,4),
      Mv(3,4,2,2), Mv(5,4,3,5), Mv(4,5,3,3), Mv(3,5,4,3), Mv(2,2,3,4), Mv(4,3,3,1),
      Mv(3,4,4,2), Mv(3,1,5,2), Mv(3,3,5,4), Mv(5,2,3,1), Mv(4,2,3,4), Mv(3,1,4,3),
      Mv(3,4,4,6), Mv(4,1,2,2), Mv(4,6,2,7), Mv(4,3,2,4), Mv(2,7,0,6), Mv(2,4,3,6),
      Mv(5,4,3,3), Mv(2,2,3,0), Mv(3,3,4,1), Mv(3,0,5,1), Mv(4,1,3,3), Mv(5,1,3,2),
      Mv(3,3,2,1), Mv(3,2,4,0), Mv(2,1,4,2), Mv(3,6,5,7), Mv(4,2,5,4), Mv(4,0,3,2),
      Mv(5,4,4,6), Mv(5,7,7,6)>>

\*   h2h3 h7h6 f2f4 h8h7 a2a4 e7e6 b2b3 d8h4 g2g3 h4f4 g3f4 g7g6
\*   h1h2 h6h5 h2g2 g8f6 g2g6 f7g6 d2d3 g6g5 f4g5 d7d5 g5f6 h5h4
\*   g1f3 a7a5 f3h4 h7h4 d3d4 h4h3 f1h3 c7c6 h3e6 c8e6 c2c4 d5c4
\*   b3c4 e6c4 b1d2 c4e2 d1e2 e8f7 d2c4 f7f6 c4a5 a8a5 e2c4 a5a4
\*   c4c6 b8c6 a1a4 c6d4 a4d4 f6g7 c1e3 f8a3 e1e2 g7f7 d4d1 a3f8
\*   d1d7 f7f6 d7b7 f8e7 b7e7 f6e7 e3c5 e7d7 c5d6 d7d6
BareKings ==
    <<Mv(6,7,5,7), Mv(1,7,2,7), Mv(6,5,4,5), Mv(0,7,1,7), Mv(6,0,4,0), Mv(1,4,2,4),
      Mv(6,1,5,1), Mv(0,3,4,7), Mv(6,6,5,6), Mv(4,7,4,5), Mv(5,6,4,5), Mv(1,6,2,6),
      Mv(7,7,6,7), Mv(2,7,3,7), Mv(6,7,6,6), Mv(0,6,2,5), Mv(6,6,2,6), Mv(1,5,2,6),
      Mv(6,3,5,3), Mv(2,6,3,6), Mv(4,5,3,6), Mv(1,3,3,3), Mv(3,6,2,5), Mv(3,7,4,7),
      Mv(7,6,5,5), Mv(1,0,3,0), Mv(5,5,4,7), Mv(1,7,4,7), Mv(5,3,4,3), Mv(4,7,5,7),
      Mv(7,5,5,7), Mv(1,2,2,2), Mv(5,7,2,4), Mv(0,2,2,4), Mv(6,2,4,2), Mv(3,3,4,2),
      Mv(5,1,4,2), Mv(2,4,4,2), Mv(7,1,6,3), Mv(4,2,6,4), Mv(7,3,6,4), Mv(0,4,1,5),
      Mv(6,3,4,2), Mv(1,5,2,5), Mv(4,2,3,0), Mv(0,0,3,0), Mv(6,4,4,2), Mv(3,0,4,0),
      Mv(4,2,2,2), Mv(0,1,2,2), Mv(7,0,4,0), Mv(2,2,4,3), Mv(4,0,4,3), Mv(2,5,1,6),
      Mv(7,2,5,4), Mv(0,5,5,0), Mv(7,4,6,4), Mv(1,6,1,5), Mv(4,3,7,3), Mv(5,0,0,5),
      Mv(7,3,1,3), Mv(1,5,2,5), Mv(1,3,1,1), Mv(0,5,1,4), Mv(1,1,1,4), Mv(2,5,1,4),
      Mv(5,4,3,2), Mv(1,4,1,3), Mv(3,2,2,3), Mv(1,3,2,3)>>

\*   e2e4 e7e5 e1e2 undo
KingMoveUndo ==
    <<Mv(6,4,4,4), Mv(1,4,3,4), Mv(7,4,6,4), Un>>

\*   g2g3 b7b6 f1g2 g8f6 g2a8
RookCapturedAtHome ==
    <<Mv(6,6,5,6), Mv(1,1,2,1), Mv(7,5,6,6), Mv(0,6,2,5), Mv(6,6,0,0)>>

\*   h2h4 g7g5 h4g5 g8f6 g5g6 f6e4 g6g7 e4f6 g7g8r undo
Promotion ==
    <<Mv(6,7,4,7), Mv(1,6,3,6), Mv(4,7,3,6), Mv(0,6,2,5), Mv(3,6,2,6), Mv(2,5,4,4),
      Mv(2,6,1,6), Mv(4,4,2,5), Pr(1,6,0,6,"rook"), Un>>

\*   e2e4 a7a5 e4e5 a5a4 e1e2 a8a5 e2e3 b8a6 e3f4 a6b8 f4g5 d7d5
\*   e5d6 a5g5
KingCaptured ==
    <<Mv(6,4,4,4), Mv(1,0,3,0), Mv(4,4,3,4), Mv(3,0,4,0), Mv(7,4,6,4), Mv(0,0,3,0),
      Mv(6,4,5,4), Mv(0,1,2,0), Mv(5,4,4,5), Mv(2,0,0,1), Mv(4,5,3,6), Mv(1,3,3,3),
      Mv(3,4,2,3), Mv(3,0,3,6)>>

\*   undo e2e4 undo undo
UndoAtStart ==
    <<Un, Mv(6,4,4,4), Un, Un>>

\*   d2d4 f7f5 c1g5 h7h6 g5h4 g7g5 h4g3 f5f4 e2e3 h6h5 f1d3 h8h6
\*   d1h5
ForcedRecapture ==
    <<Mv(6,3,4,3), Mv(1,5,3,5), Mv(7,2,3,6), Mv(1,7,2,7), Mv(3,6,4,7), Mv(1,6,3,6),
      Mv(4,7,5,6), Mv(3,5,4,5), Mv(6,4,5,4), Mv(2,7,3,7), Mv(7,5,5,3), Mv(0,7,2,7),
      Mv(7,3,3,7)>>

\*   g2g3 b7b6 f1g2 g8f6 g2a8 b8c6 a2a3 c8a6 b2b3 e7e6 c2c3 d8e7
\*   d2d3 e8c8 undo
CastleWithoutRook ==
    <<Mv(6,6,5,6), Mv(1,1,2,1), Mv(7,5,6,6), Mv(0,6,2,5), Mv(6,6,0,0), Mv(0,1,2,2),
      Mv(6,0,5,0), Mv(0,2,2,0), Mv(6,1,5,1), Mv(1,4,2,4), Mv(6,2,5,2), Mv(0,3,1,4),
      Mv(6,3,5,3), Mv(0,4,0,2), Un>>

\*   e2e4 undo d2e3 undo
StaleEnPassantOwnPawn ==
    <<Mv(6,4,4,4), Un, Mv(6,3,5,4), Un>>

\*   e2e4 a7a5 e4e5 a5a4 e1e2 a8a5 e2e3 b8a6 e3f4 a6b8 f4g5 d7d5
\*   undo undo e5d6
StaleEnPassantThrows ==
    <<Mv(6,4,4,4), Mv(1,0,3,0), Mv(4,4,3,4), Mv(3,0,4,0), Mv(7,4,6,4), Mv(0,0,3,0),
      Mv(6,4,5,4), Mv(0,1,2,0), Mv(5,4,4,5), Mv(2,0,0,1), Mv(4,5,3,6), Mv(1,3,3,3),
      Un, Un, Mv(3,4,2,3)>>

Lines == <<FoolsMate, CastleThroughPawnAttack, EnPassantPin, Repetition, LoydStalemate, FiftyMoves, BareKings, KingMoveUndo, RookCapturedAtHome, Promotion, KingCaptured, UndoAtStart, ForcedRecapture, CastleWithoutRook, StaleEnPassantOwnPawn, StaleEnPassantThrows>>

\* after how many calls of each line free calls may start
Open == <<{4}, {}, {}, {}, {19}, {}, {61, 65, 67, 70}, {}, {}, {}, {}, {}, {}, {}, {}, {}>>
\* end of the lines

\* free calls after leaving a line
MaxFree == 1

\* after how many calls of a line getBestMove may be called on the game
SearchAt ==
    [i \in DOMAIN Lines |->
        IF Lines[i] = FoolsMate THEN {4}
        ELSE IF Lines[i] = BareKings THEN {8, 65, 67, 70}
        ELSE IF Lines[i] = ForcedRecapture THEN {13}
        ELSE {}]

\* simulations of a search the model follows, and plies of a rollout
MaxSimulations == 2

MaxRollout == 1

\* the values an installed evaluator returns for a position
NetworkValues == {<<1, 4>>, <<3, 4>>}

\* the promotion types the promotion dialog offers
PromotionPieces == {"queen", "rook", "bishop", "knight"}

VARIABLES
    game,       \* the ChessGame instance
    op,         \* the last method called on it
    ret,        \* the value that call returned
    err,        \* whether that call threw
    line,       \* the line this game follows
    pc,         \* the next call of the line
    free,       \* free calls made after the line
    before,     \* the game as it was before the last accepted makeMove
    roundTrip,  \* the last call was an undoMove right after an accepted makeMove
    sigLog,     \* the signatures of the positions of the game so far
    nodes,      \* the MCTSNodes of the search in progress, the root first
    run,        \* the search in progress: where it stands and what it holds
    ui,         \* the ChessUI instance, its timers and its calls of getAIMove
    training    \* the training of the evaluator: its flag, calls and counter

vars == <<game, op, ret, err, line, pc, free, before, roundTrip, sigLog, nodes, run, ui,
          training>>

\* no search in progress
Idle ==
    [pc |-> "idle", neuralNetwork |-> FALSE, simulations |-> 0, leaf |-> 0,
     sim |-> cloneGameState(NewChessGame), depth |-> 0, passed |-> NewChessGame,
     move |-> NoMove, threw |-> FALSE, failed |-> FALSE]

\* new ChessNeuralNetwork() and new ChessAI(): isTraining, the calls of
\* trainFromHistory made so far, each with the point it has reached, and
\* trainingStats.totalTrainingSessions
NoTraining == [isTraining |-> FALSE, calls |-> <<>>, totalTrainingSessions |-> 0]

\* new ChessUI(): the fields of the constructor; timers counts the pending
\* setTimeout(() => this.makeAIMove(), 500), searches lists the calls of
\* getAIMove not yet resolved, each with the game object it was given (obj)
\* and the position that object had at the call (snapshot); gameId names the
\* object this.game refers to; endTimers counts the pending timers of
\* handleGameEnd, ended lists the calls of handleGameEnd and stored the calls
\* of aiEngine.storeGame, each with the game object, the length of its move
\* log and the result of the game at the call
NewChessUI ==
    [playerColor |-> "white", isAIThinking |-> FALSE, selectedSquare |-> <<>>,
     validMoves |-> {}, timers |-> 0, searches |-> <<>>, gameId |-> 1,
     userMoves |-> 0, newGames |-> 0, aiMoves |-> 0, last |-> "new", undid |-> FALSE,
     endTimers |-> 0, ended |-> <<>>, stored |-> <<>>]

Init ==
    /\ game = NewChessGame
    /\ op = "new"
    /\ ret = TRUE
    /\ err = FALSE
    /\ line \in DOMAIN Lines
    /\ pc = 1
    /\ free = 0
    /\ before = NewChessGame
    /\ roundTrip = FALSE
    /\ sigLog = <<fenKey(NewChessGame)>>
    /\ nodes = <<>>
    /\ run = Idle
    /\ ui = NewChessUI
    /\ training = NoTraining

\* the call is the next one of the line
Scripted(call) == pc <= Len(Lines[line]) /\ call = Lines[line][pc]

\* the game may leave its line after the numbers of calls in Open, and then
\* goes on freely for MaxFree calls; a free makeMove starts on a piece of the
\* side to move, as a move made from a selected square does (handleSquareClick)
Free(call) ==
    /\ ~Scripted(call)
    /\ free < MaxFree
    /\ free > 0 \/ (pc - 1) \in Open[line]
    /\ call.op = "makeMove" =>
          /\ game.board[call.fromRow][call.fromCol] # null
          /\ game.board[call.fromRow][call.fromCol].color = game.currentPlayer

Offered(call) == Scripted(call) \/ Free(call)

Advance(call) ==
    /\ line' = line
    /\ IF Scripted(call)
       THEN pc' = pc + 1 /\ free' = free
       ELSE pc' = Len(Lines[line]) + 1 /\ free' = free + 1

MakeMove(fromRow, fromCol, toRow, toCol, promotionPiece) ==
    /\ run.pc = "idle"
    /\ UNCHANGED <<nodes, run, ui, training>>
    /\ Offered([op |-> "makeMove", fromRow |-> fromRow, fromCol |-> fromCol,
                toRow |-> toRow, toCol |-> toCol, promotionPiece |-> promotionPiece])
    /\ \E out \in {makeMove(game, fromRow, fromCol, toRow, toCol, promotionPiece)} :
          /\ game' = out.game
          /\ ret' = out.ret
          /\ err' = out.err
          /\ before' = IF out.ret THEN game ELSE before
          /\ sigLog' = IF out.ret THEN Append(sigLog, fenKey(out.game)) ELSE sigLog
    /\ op' = "makeMove"
    /\ roundTrip' = FALSE
    /\ Advance([op |-> "makeMove", fromRow |-> fromRow, fromCol |-> fromCol,
                toRow |-> toRow, toCol |-> toCol, promotionPiece |-> promotionPiece])

UndoMove ==
    /\ run.pc = "idle"
    /\ UNCHANGED <<nodes, run, ui, training>>
    /\ Offered(Un)
    /\ \E out \in {undoMove(game)} :
          /\ game' = out.game
          /\ ret' = out.ret
          /\ err' = out.err
          /\ sigLog' = IF out.ret THEN SubSeq(sigLog, 1, Len(sigLog) - 1) ELSE sigLog
          /\ roundTrip' = (out.ret /\ op = "makeMove" /\ ret)
    /\ op' = "undoMove"
    /\ before' = before
    /\ Advance(Un)

\* the promotion type is asked for only when a pawn reaches the last rank
PromotionChoice(fromRow, fromCol, toRow) ==
    IF game.board[fromRow][fromCol].type = "pawn" /\ toRow \in {0, 7}
    THEN PromotionPieces ELSE {"queen"}

Next ==
    \/ \E fromRow \in Rows, fromCol \in Cols, toRow \in Rows, toCol \in Cols :
          \E promotionPiece \in PromotionChoice(fromRow, fromCol, toRow) :
             MakeMove(fromRow, fromCol, toRow, toCol, promotionPiece)
    \/ UndoMove

Spec == Init /\ [][Next]_vars

----------------------------------------------------------------------------
\* getBestMove(game): the steps of one search on the game

\* the game after getAllValidMoves: every isValidMove call leaves the board
\* as its restore leaves it
afterGetAllValidMoves(g) ==
    LET after(m) == afterIsValidMove(g, m[1][1], m[1][2], m[2][1], m[2][2])
        first(changed) == IF changed = {} THEN g ELSE after(CHOOSE m \in changed : TRUE)
    IN first({m \in (Rows \X Cols) \X (Rows \X Cols) : after(m) # g})

RECURSIVE afterChecksFilter(_, _, _)
\* the game passed after the checks filter of selectSimulationMove, which
\* makes each valid move on a clone of the rollout state
afterChecksFilter(passed, state, moves) ==
    LET rest(m, cloned) ==
           LET written(moved) ==
                  afterChecksFilter(
                     writeThrough(passed, cloned.shares, moved.state.game),
                     [state EXCEPT !.game =
                         writeThrough(state.game, cloned.shares, moved.state.game)],
                     moves \ {m})
           IN IF cloned.shares = {} THEN passed ELSE written(moveOn(cloned, m))
    IN IF moves = {} THEN passed
       ELSE rest(CHOOSE m \in moves : TRUE, cloneState(state))

Driver == <<op, ret, err, line, pc, free, before, roundTrip, sigLog, ui, training>>

\* getBestMove calls search, which makes the root from a clone of the game
GetBestMove(neuralNetwork) ==
    /\ run.pc = "idle"
    /\ free = 0
    /\ (pc - 1) \in SearchAt[line]
    /\ nodes' = <<MCTSNode(cloneGameState(game), NoMove, 0)>>
    /\ run' = [Idle EXCEPT !.pc = "search", !.neuralNetwork = neuralNetwork,
                            !.passed = game]
    /\ UNCHANGED <<game, Driver>>

\* an error thrown inside search is caught by getBestMove
Throw == run' = [run EXCEPT !.pc = "fallback", !.threw = TRUE]

\* selectAndExpand(rootNode): the selection loop, then one new child
SelectAndExpand ==
    /\ run.pc = "search"
    /\ run.simulations < maxSimulations
    /\ run.simulations < MaxSimulations
    /\ \E n \in selected(nodes, 1) :
          IF n = 0
          THEN Throw /\ UNCHANGED <<game, nodes>>
          ELSE \E unexplored \in {IF nodes[n].isTerminal THEN {}
                                  ELSE unexploredMoves(nodes, n)} :
               IF unexplored # {}
               THEN \E randomMove \in unexplored :
                    \E newGameState \in {cloneState(nodes[n].gameState)} :
                    \E moved \in {moveOn(newGameState, randomMove)} :
                       /\ game' = writeThrough(game, newGameState.shares, moved.state.game)
                       /\ IF moved.err
                          THEN Throw /\ nodes' = nodes
                          ELSE IF moved.ret
                          THEN /\ nodes' = Append([nodes EXCEPT ![n].children =
                                                      Append(@, Len(nodes) + 1)],
                                                  MCTSNode(moved.state, randomMove, n))
                               /\ run' = [run EXCEPT !.pc = "simulate",
                                                     !.leaf = Len(nodes) + 1]
                          ELSE /\ nodes' = nodes
                               /\ run' = [run EXCEPT !.pc = "simulate", !.leaf = n]
               ELSE /\ run' = [run EXCEPT !.pc = "simulate", !.leaf = n]
                    /\ UNCHANGED <<game, nodes>>
    /\ UNCHANGED Driver

\* backpropagate the result from the leaf and count the simulation; the
\* rollout state, a local of simulate, is gone when simulate has returned
Backpropagate(result) ==
    /\ nodes' = backpropagate(nodes, run.leaf, result)
    /\ run' = [run EXCEPT !.pc = "search", !.simulations = @ + 1, !.sim = Idle.sim]

\* the evaluator returned its value, which simulate returns
Evaluated(evaluation) ==
    /\ nodes' = backpropagate(nodes, run.leaf, evaluation)
    /\ run' = [run EXCEPT !.pc = "search", !.simulations = @ + 1, !.failed = FALSE,
                          !.sim = Idle.sim]

\* simulate without the try around evaluatePosition: a failure leaves search
Simulate_failureNotCaught ==
    /\ run.pc = "simulate"
    /\ \/ /\ run.neuralNetwork /\ nodes[run.leaf].visits = 0
          /\ \/ \E evaluation \in NetworkValues : Evaluated(evaluation)
             \/ Throw /\ nodes' = nodes
       \/ /\ ~(run.neuralNetwork /\ nodes[run.leaf].visits = 0)
          /\ run' = [run EXCEPT !.pc = "rollout",
                                !.sim = cloneState(nodes[run.leaf].gameState),
                                !.depth = 0, !.failed = FALSE]
          /\ nodes' = nodes
    /\ UNCHANGED <<game, Driver>>

\* simulate(leafNode) up to its rollout loop: the clone, and the evaluator
\* when one is installed and the leaf was never visited; run.failed tells
\* whether the evaluator was called in this simulation and failed
Simulate ==
    /\ run.pc = "simulate"
    /\ \/ /\ run.neuralNetwork /\ nodes[run.leaf].visits = 0
          /\ \E evaluation \in NetworkValues : Evaluated(evaluation)
       \/ \* no evaluator, a visited leaf, or an evaluation that failed
          /\ run' = [run EXCEPT !.pc = "rollout",
                                !.sim = cloneState(nodes[run.leaf].gameState),
                                !.depth = 0,
                                !.failed = run.neuralNetwork /\ nodes[run.leaf].visits = 0]
          /\ nodes' = nodes
    /\ UNCHANGED <<game, Driver>>

\* the moves the rollout loop of simulate chooses from when it goes round
\* once more; none when the loop is left
rolloutMoves ==
    IF /\ run.sim.game.gameState \in {"playing", "check"}
       /\ run.depth < maxDepth
       /\ run.depth < MaxRollout
    THEN getAllValidMoves(run.sim.game, run.sim.game.currentPlayer)
    ELSE {}

\* simulate(leafNode) from its rollout loop on: one round of the loop,
\* selectSimulationMove then makeMove, or the evaluation of the final position
Rollout ==
    /\ run.pc = "rollout"
    /\ \E validMoves \in {rolloutMoves} :
          IF validMoves # {}
          THEN \E move \in validMoves, returnsCapture \in BOOLEAN :
                  \* a capture can be returned before the checks filter runs
                  /\ returnsCapture => run.sim.game.board[move[2][1]][move[2][2]] # null
                  /\ \E passed \in {IF returnsCapture THEN game
                                    ELSE afterChecksFilter(game, run.sim, validMoves)} :
                     \E moved \in {moveOn(run.sim, move)} :
                        /\ game' = writeThrough(passed, run.sim.shares, moved.state.game)
                        /\ IF moved.err THEN Throw /\ nodes' = nodes
                           ELSE IF moved.ret
                           THEN /\ run' = [run EXCEPT !.sim = moved.state, !.depth = @ + 1]
                                /\ nodes' = nodes
                           ELSE Backpropagate(evaluateTerminalPosition(
                                   moved.state.game,
                                   nodes[run.leaf].gameState.game.currentPlayer))
          ELSE /\ Backpropagate(evaluateTerminalPosition(
                     run.sim.game, nodes[run.leaf].gameState.game.currentPlayer))
               /\ game' = game
    /\ UNCHANGED Driver

\* the simulation loop of search is left, on the count or on the time limit:
\* the move of the most visited child of the root is returned; reduce throws
\* a TypeError when the root has no children
SearchReturns ==
    /\ run.pc = "search"
    /\ IF Len(nodes[1].children) = 0
       THEN Throw
       ELSE run' = [run EXCEPT !.pc = "done", !.move = nodes[bestChild(nodes)].move]
    /\ UNCHANGED <<game, nodes, Driver>>

\* the catch of getBestMove returning null without asking for the valid moves
Fallback_returnsNull ==
    /\ run.pc = "fallback"
    /\ run' = [run EXCEPT !.pc = "done", !.move = NoMove]
    /\ UNCHANGED <<game, nodes, Driver>>

\* the catch of getBestMove: a random valid move of the game, or null
Fallback ==
    /\ run.pc = "fallback"
    /\ \E validMoves \in {getAllValidMoves(game, game.currentPlayer)} :
       \E move \in IF validMoves = {} THEN {NoMove} ELSE validMoves :
          run' = [run EXCEPT !.pc = "done", !.move = move]
    /\ game' = afterGetAllValidMoves(game)
    /\ UNCHANGED <<nodes, Driver>>

NextAI ==
    \/ Next
    \/ \E neuralNetwork \in BOOLEAN : GetBestMove(neuralNetwork)
    \/ SelectAndExpand
    \/ Simulate
    \/ Rollout
    \/ SearchReturns
    \/ Fallback

SpecAI == Init /\ [][NextAI]_vars
----------------------------------------------------------------------------
\* ChessUI (main.js): the handlers of the page on this.game, the timers that
\* call makeAIMove and the calls of getAIMove it awaits

\* the squares the user clicks, moves the user makes and games the user starts:
\* e2, e4, e7 and e5 in a session that starts with the page, d8 and h4 in one
\* followed from a game under way
ClickSquares ==
    IF pc = 1 THEN {<<6, 4>>, <<4, 4>>, <<1, 4>>, <<3, 4>>} ELSE {<<0, 3>>, <<4, 7>>}

MaxUserMoves == 1

MaxNewGames == 1

\* what the ChessUI handlers leave alone
Session == <<op, ret, err, line, pc, free, before, roundTrip, sigLog, nodes, run, training>>

InitUI ==
    /\ game = NewChessGame
    /\ op = "new"
    /\ ret = TRUE
    /\ err = FALSE
    /\ line = 1
    /\ pc = 1
    /\ free = 0
    /\ before = NewChessGame
    /\ roundTrip = FALSE
    /\ sigLog = <<fenKey(NewChessGame)>>
    /\ nodes = <<>>
    /\ run = Idle
    /\ ui = NewChessUI
    /\ training = NoTraining

isOver(g) == g.gameState \in {"checkmate", "stalemate", "draw"}

\* the result storeGameForLearning gives a game: 1 when White has won by
\* checkmate, 0 when Black has, 0.5 otherwise
gameResult(g) ==
    IF g.gameState = "checkmate"
    THEN (IF g.currentPlayer = "white" THEN <<0, 1>> ELSE <<1, 1>>)
    ELSE <<1, 2>>

\* the game this.game refers to, as handleGameEnd and storeGame find it
GameRecord(u, g) ==
    [obj |-> u.gameId, moveCount |-> Len(g.moveHistory), result |-> gameResult(g)]

\* storeGameForLearning(): aiEngine.storeGame(this.game.moveHistory, result)
storeGameForLearning(u, g) == [u EXCEPT !.stored = Append(@, GameRecord(u, g))]

\* handleGameEnd(): autoTraining is always true, so the timer is set
handleGameEnd(u, g) ==
    [u EXCEPT !.endTimers = @ + 1, !.ended = Append(@, GameRecord(u, g))]

\* the status test after a move made on this.game
afterMove(u, g) == IF isOver(g) THEN handleGameEnd(u, g) ELSE u

getValidMovesForSquare(g, row, col) ==
    {rc \in Rows \X Cols : isValidMove(g, row, col, rc[1], rc[2])}

\* ChessUI.makeMove(fromRow, fromCol, toRow, toCol): piece.type throws when
\* the origin is empty; the promotion dialog calls back with the type chosen
UIMakeMove(fromRow, fromCol, toRow, toCol) ==
    IF game.board[fromRow][fromCol] = null
    THEN UNCHANGED <<game, ui>>
    ELSE /\ ui.userMoves < MaxUserMoves
         /\ \E selectedPiece \in PromotionChoice(fromRow, fromCol, toRow) :
            \E out \in {makeMove(game, fromRow, fromCol, toRow, toCol, selectedPiece)} :
               /\ game' = out.game
               /\ ui' = IF out.ret /\ ~out.err
                        THEN afterMove(
                               [ui EXCEPT
                                  !.selectedSquare = <<>>,
                                  !.validMoves = {},
                                  !.timers = IF ~isOver(out.game)
                                                /\ out.game.currentPlayer # ui.playerColor
                                             THEN @ + 1 ELSE @,
                                  !.userMoves = @ + 1,
                                  !.last = "makeMove"],
                               out.game)
                        ELSE [ui EXCEPT !.last = "handleSquareClick"]

\* handleSquareClick(row, col)
HandleSquareClick(row, col) ==
    /\ ~ui.isAIThinking
    /\ IF <<row, col>> \in ui.validMoves
       THEN UIMakeMove(ui.selectedSquare[1], ui.selectedSquare[2], row, col)
       ELSE /\ game' = game
            /\ ui' = IF /\ game.board[row][col] # null
                        /\ game.board[row][col].color = ui.playerColor
                        /\ game.currentPlayer = ui.playerColor
                     THEN [ui EXCEPT !.selectedSquare = <<row, col>>,
                                     !.validMoves = getValidMovesForSquare(game, row, col),
                                     !.last = "handleSquareClick"]
                     ELSE [ui EXCEPT !.selectedSquare = <<>>,
                                     !.validMoves = {},
                                     !.last = "handleSquareClick"]
    /\ UNCHANGED Session

\* ChessUI.undoMove(): one undoMove of the game, and a second one when the
\* side to move is then not the player's and the move log is not empty
UIUndoMove ==
    /\ ~ui.isAIThinking
    /\ \E first \in {undoMove(game)} :
       \E second \in {IF /\ first.ret
                         /\ first.game.currentPlayer # ui.playerColor
                         /\ Len(first.game.moveHistory) > 0
                      THEN undoMove(first.game) ELSE first} :
          /\ game' = second.game
          /\ ui' = [ui EXCEPT !.selectedSquare = <<>>,
                              !.validMoves = {},
                              !.last = "undoMove",
                              !.undid = first.ret]
    /\ UNCHANGED Session

\* newGame() once playerColor is color: the game is stored when its move log
\* is not empty; then a new ChessGame object, isAIThinking reset, and a timer
\* for makeAIMove when the player has black
newGame(color) ==
    /\ ui.newGames < MaxNewGames
    /\ game' = NewChessGame
    /\ ui' = [(IF Len(game.moveHistory) > 0 THEN storeGameForLearning(ui, game) ELSE ui)
                 EXCEPT !.playerColor = color,
                        !.gameId = @ + 1,
                        !.selectedSquare = <<>>,
                        !.validMoves = {},
                        !.isAIThinking = FALSE,
                        !.timers = IF color = "black" THEN @ + 1 ELSE @,
                        !.newGames = @ + 1,
                        !.last = "newGame"]
    /\ UNCHANGED Session

UINewGame == newGame(ui.playerColor)

ChangePlayerColor(color) == newGame(color)

\* a timer fires: makeAIMove up to its await; getAIMove calls getBestMove with
\* this.game, and search clones it before it first yields
MakeAIMove ==
    /\ ui.timers > 0
    /\ ui' = IF ui.isAIThinking
             THEN [ui EXCEPT !.timers = @ - 1]
             ELSE [ui EXCEPT !.timers = @ - 1,
                             !.isAIThinking = TRUE,
                             !.searches = Append(@, [obj |-> ui.gameId, snapshot |-> game]),
                             !.last = "makeAIMove"]
    /\ UNCHANGED <<game, Session>>

\* the moves getBestMove can resolve to for a game that had the position
\* snapshot at the call and has the position live now: the move of a child of
\* the root, or, when the root gets no child, what the catch takes from the
\* game; NoMove is null
getBestMove(snapshot, live) ==
    IF isOver(snapshot) \/ getAllValidMoves(snapshot, snapshot.currentPlayer) = {}
    THEN (IF getAllValidMoves(live, live.currentPlayer) = {}
          THEN {NoMove} ELSE getAllValidMoves(live, live.currentPlayer))
    ELSE getAllValidMoves(snapshot, snapshot.currentPlayer)

Remove(s, i) == SubSeq(s, 1, i - 1) \o SubSeq(s, i + 1, Len(s))

\* a call of getAIMove resolves: makeAIMove after its await makes the move
\* on this.game and resets isAIThinking, also when makeMove throws
AIMoveReturns ==
    /\ \E i \in DOMAIN ui.searches :
       \E live \in {IF ui.searches[i].obj = ui.gameId
                    THEN game ELSE ui.searches[i].snapshot} :
       \E move \in getBestMove(ui.searches[i].snapshot, live) :
       \E out \in {IF move = NoMove THEN Outcome(game, FALSE, FALSE)
                   ELSE makeMove(game, move[1][1], move[1][2], move[2][1], move[2][2],
                                 "queen")} :
          /\ game' = out.game
          /\ ui' = [(IF out.ret /\ ~out.err THEN afterMove(ui, out.game) ELSE ui)
                       EXCEPT !.searches = Remove(@, i),
                              !.isAIThinking = FALSE,
                              !.aiMoves = IF out.ret /\ ~out.err THEN @ + 1 ELSE @,
                              !.last = "aiMove"]
    /\ UNCHANGED Session

\* the timer of handleGameEnd fires: storeGameForLearning() on what this.game
\* is by then (autoTrainAI, which follows, writes nothing of the ChessUI)
GameEndTimer ==
    /\ ui.endTimers > 0
    /\ ui' = storeGameForLearning([ui EXCEPT !.endTimers = @ - 1, !.last = "storeGame"],
                                  game)
    /\ UNCHANGED <<game, Session>>

NextUI ==
    \/ \E rc \in ClickSquares : HandleSquareClick(rc[1], rc[2])
    \/ UIUndoMove
    \/ UINewGame
    \/ \E color \in {"white", "black"} : ChangePlayerColor(color)
    \/ MakeAIMove
    \/ AIMoveReturns

\* the steps of AIMoveReturns, which alone shortens ui.searches
Resolves == Len(ui'.searches) < Len(ui.searches)

\* timers fire, and calls of getAIMove resolve: weak fairness of
\* AIMoveReturns, which is enabled exactly when a call is not yet resolved
SpecUI ==
    /\ InitUI
    /\ [][NextUI]_vars
    /\ WF_vars(MakeAIMove)
    /\ ([]<>(ui.searches = <<>>) \/ []<><<Resolves>>_vars)

RECURSIVE played(_, _)
\* the game after the first n calls of a line, none of which fails
played(calls, n) ==
    IF n = 0 THEN NewChessGame
    ELSE LET call == calls[n]
         IN makeMove(played(calls, n - 1), call.fromRow, call.fromCol,
                     call.toRow, call.toCol, call.promotionPiece).game

\* a session followed from a game under way: the player took Black
\* (changePlayerColor), and the AI's f2f3 and g2g4 and the player's e7e5 have
\* been made, the first three calls of FoolsMate; no timer is pending
InitUIGameEnd ==
    /\ game = played(FoolsMate, 3)
    /\ op = "makeMove"
    /\ ret = TRUE
    /\ err = FALSE
    /\ line = 1
    /\ pc = 4
    /\ free = 0
    /\ before = played(FoolsMate, 2)
    /\ roundTrip = FALSE
    /\ sigLog = [i \in 1..4 |-> fenKey(played(FoolsMate, i - 1))]
    /\ nodes = <<>>
    /\ run = Idle
    /\ ui = [NewChessUI EXCEPT !.playerColor = "black", !.gameId = 2, !.last = "aiMove"]
    /\ training = NoTraining

NextUIGameEnd ==
    \/ NextUI
    \/ GameEndTimer

SpecUIGameEnd == InitUIGameEnd /\ [][NextUIGameEnd]_vars
----------------------------------------------------------------------------
\* The training of the evaluator: ChessAI.trainFromHistory (ai-engine.js) and
\* ChessNeuralNetwork.trainOnBatch (part_000).  trainFromHistory is called by
\* the timer of storeGame (autoTrain), by the timer of handleGameEnd
\* (autoTrainAI) and by the training button; each call runs up to an await,
\* and goes on when what it awaits has resolved or rejected.

\* calls of trainFromHistory in a session
MaxTrainingCalls == 3

\* what the training leaves alone
Page == <<game, op, ret, err, line, pc, free, before, roundTrip, sigLog, nodes, run, ui>>

InitTraining ==
    /\ game = NewChessGame
    /\ op = "new"
    /\ ret = TRUE
    /\ err = FALSE
    /\ line = 1
    /\ pc = 1
    /\ free = 0
    /\ before = NewChessGame
    /\ roundTrip = FALSE
    /\ sigLog = <<fenKey(NewChessGame)>>
    /\ nodes = <<>>
    /\ run = Idle
    /\ ui = NewChessUI
    /\ training = NoTraining

\* trainOnBatch without the test of isTraining
trainOnBatch_notGuarded(t) ==
    [t EXCEPT !.isTraining = TRUE, !.calls = Append(@, "fit")]

\* trainOnBatch(inputs, targets) up to await this.model.fit: the call throws
\* when a run is in progress, and otherwise sets isTraining and starts the fit
trainOnBatch(t) ==
    IF t.isTraining
    THEN [t EXCEPT !.calls = Append(@, "rejected")]
    ELSE [t EXCEPT !.isTraining = TRUE, !.calls = Append(@, "fit")]

\* a call of trainFromHistory() with gamesStored games in the history: it
\* throws when there is none, and calls trainOnBatch otherwise
TrainFromHistory(gamesStored) ==
    /\ Len(training.calls) < MaxTrainingCalls
    /\ training' = IF gamesStored < 1
                   THEN [training EXCEPT !.calls = Append(@, "rejected")]
                   ELSE trainOnBatch(training)
    /\ UNCHANGED Page

\* the finally of trainOnBatch, and the throw or the return that leads to it
Finally(i, outcome) == [training EXCEPT !.isTraining = FALSE, !.calls[i] = outcome]

\* this.model.fit resolves, and trainOnBatch awaits saveModel, or it rejects
\* and trainOnBatch throws 'Training failed'
FitReturns(i) ==
    /\ i \in DOMAIN training.calls
    /\ training.calls[i] = "fit"
    /\ \/ training' = [training EXCEPT !.calls[i] = "save"]
       \/ training' = Finally(i, "failed")
    /\ UNCHANGED Page

\* saveModel resolves and trainOnBatch returns, or it rejects and trainOnBatch
\* throws
SaveReturns(i) ==
    /\ i \in DOMAIN training.calls
    /\ training.calls[i] = "save"
    /\ \/ training' = Finally(i, "trained")
       \/ training' = Finally(i, "failed")
    /\ UNCHANGED Page

\* trainFromHistory goes on after await trainOnBatch: the session is counted
SessionCounted(i) ==
    /\ i \in DOMAIN training.calls
    /\ training.calls[i] = "trained"
    /\ training' = [training EXCEPT !.calls[i] = "done", !.totalTrainingSessions = @ + 1]
    /\ UNCHANGED Page

NextTraining ==
    \/ \E gamesStored \in {0, 1} : TrainFromHistory(gamesStored)
    \/ \E i \in 1..MaxTrainingCalls : FitReturns(i)
    \/ \E i \in 1..MaxTrainingCalls : SaveReturns(i)
    \/ \E i \in 1..MaxTrainingCalls : SessionCounted(i)

SpecTraining == InitTraining /\ [][NextTraining]_vars

----------------------------------------------------------------------------
\* Chess notions the properties are stated in, independent of the methods above

\* a piece of colour byColor attacks the square (row, col) of the board
Attacked(board, byColor, row, col) ==
    \E r \in Rows : \E c \in Cols :
       LET piece == board[r][c]
           dr == row - r
           dc == col - c
           n == IF Abs(dr) > Abs(dc) THEN Abs(dr) ELSE Abs(dc)
           sr == IF dr > 0 THEN 1 ELSE IF dr < 0 THEN -1 ELSE 0
           sc == IF dc > 0 THEN 1 ELSE IF dc < 0 THEN -1 ELSE 0
           clear == \A k \in 1..(n - 1) : board[r + k * sr][c + k * sc] = null
           straight == (dr = 0 \/ dc = 0) /\ n > 0
           diagonal == Abs(dr) = Abs(dc) /\ n > 0
       IN /\ piece # null
          /\ piece.color = byColor
          /\ CASE piece.type = "pawn" ->
                    Abs(dc) = 1 /\ dr = (IF byColor = "white" THEN -1 ELSE 1)
               [] piece.type = "knight" ->
                    (Abs(dr) = 2 /\ Abs(dc) = 1) \/ (Abs(dr) = 1 /\ Abs(dc) = 2)
               [] piece.type = "bishop" -> diagonal /\ clear
               [] piece.type = "rook" -> straight /\ clear
               [] piece.type = "queen" -> (straight \/ diagonal) /\ clear
               [] piece.type = "king" -> n = 1
               [] OTHER -> FALSE

\* the king of that colour stands on an attacked square
KingAttacked(board, color) ==
    \E r \in Rows : \E c \in Cols :
       board[r][c] = Piece("king", color) /\ Attacked(board, Opponent(color), r, c)

Accepted == op = "makeMove" /\ ret /\ ~err

LastMove == game.moveHistory[Len(game.moveHistory)]

----------------------------------------------------------------------------
\* C1: a (from, to) pair that isValidMove rejects makes makeMove return
\* false without an error and leaves every field of the game as it was.
RejectedMoveChangesNothing ==
    \A fromRow \in Rows, fromCol \in Cols, toRow \in Rows, toCol \in Cols :
       ~isValidMove(game, fromRow, fromCol, toRow, toCol)
       => \A promotionPiece \in PromotionChoice(fromRow, fromCol, toRow) :
             makeMove(game, fromRow, fromCol, toRow, toCol, promotionPiece)
                = Outcome(game, FALSE, FALSE)

\* a call was rejected in a position where some move obeys the movement
\* rules but would leave the mover's king in check
RejectedMoveSeen ==
    /\ op = "makeMove" /\ ~ret /\ ~err
    /\ \E fromRow \in Rows, fromCol \in Cols, toRow \in Rows, toCol \in Cols :
          /\ passesMovementRules(game, fromRow, fromCol, toRow, toCol)
          /\ wouldLeaveKingInCheck(game, fromRow, fromCol, toRow, toCol)

\* C2: after every accepted makeMove the king of the side that just moved
\* is not attacked by any enemy piece.
MoverKingSafeAfterMove ==
    Accepted => ~KingAttacked(game.board, Opponent(game.currentPlayer))

\* C3: makeMove followed by undoMove reproduces the board, the side to
\* move, the captured-piece lists and the castling rights.
UndoRestoresPosition ==
    roundTrip => /\ game.board = before.board
                 /\ game.currentPlayer = before.currentPlayer
                 /\ game.capturedPieces = before.capturedPieces
                 /\ game.castlingRights = before.castlingRights

\* C4: undoMove restores the en-passant target, the halfmove counter and
\* the repetition table to their values before the undone move.
UndoRestoresAuxiliaryState ==
    roundTrip => /\ game.enPassantTarget = before.enPassantTarget
                 /\ game.fiftyMoveRule = before.fiftyMoveRule
                 /\ game.threefoldRepetition = before.threefoldRepetition

\* C5: the status is checkmate exactly when the side to move has no legal
\* move and its king is attacked, and stalemate exactly when it has no legal
\* move and its king is not attacked.
MateStatusExact ==
    LET noMoves == getAllValidMoves(game, game.currentPlayer) = {}
        attacked == KingAttacked(game.board, game.currentPlayer)
    IN /\ game.gameState = "checkmate" <=> (noMoves /\ attacked)
       /\ game.gameState = "stalemate" <=> (noMoves /\ ~attacked)

\* a move was accepted and the status it produced is checkmate
CheckmateSeen == Accepted /\ game.gameState = "checkmate"

\* how often the signature has occurred among the positions of the game,
\* the starting position and the current one included
Occurrences(sig) == Cardinality({i \in 1..Len(sigLog) : sigLog[i] = sig})

\* a draw condition of the classifier holds in the game
DrawCondition(g) ==
    \/ g.fiftyMoveRule >= 100
    \/ Occurrences(fenKey(g)) >= 3
    \/ isInsufficientMaterial(g)

\* C6: after a move, if the side to move has a legal move and the signature
\* of the position reached has occurred 3 or more times in the game, the
\* status is draw.
ThreefoldRepetitionIsDraw ==
    (/\ Accepted
     /\ hasValidMoves(game, game.currentPlayer)
     /\ Occurrences(fenKey(game)) >= 3)
    => game.gameState = "draw"

\* C7: the move-count rule fires at 100 plies: with a legal move and a
\* halfmove counter of 100 or more the status is draw, and a counter below
\* 100 never gives draw by itself.
MoveCountRuleAtHundredPlies ==
    /\ (hasValidMoves(game, game.currentPlayer) /\ game.fiftyMoveRule >= 100)
       => game.gameState = "draw"
    /\ (game.gameState = "draw" /\ game.fiftyMoveRule < 100)
       => \/ Occurrences(fenKey(game)) >= 3
          \/ isThreefoldRepetition(game)
          \/ isInsufficientMaterial(game)

\* C8: draw conditions take precedence over check: with a legal move and a
\* draw condition the status is draw even if the side to move is attacked,
\* and check is reported only when no draw condition holds.
DrawTakesPrecedenceOverCheck ==
    /\ (/\ hasValidMoves(game, game.currentPlayer)
        /\ KingAttacked(game.board, game.currentPlayer)
        /\ DrawCondition(game))
       => game.gameState = "draw"
    /\ game.gameState = "check" => ~DrawCondition(game)

\* only the two kings, or the two kings and a single bishop, are on the board
KingsAndAtMostOneBishop(board) ==
    LET squares == {rc \in Rows \X Cols : board[rc[1]][rc[2]] # null}
        others == {rc \in squares : board[rc[1]][rc[2]].type # "king"}
    IN /\ \A color \in {"white", "black"} :
             Cardinality({rc \in squares : board[rc[1]][rc[2]] = Piece("king", color)}) = 1
       /\ Cardinality(others) <= 1
       /\ \A rc \in others : board[rc[1]][rc[2]].type = "bishop"

\* C9: whenever a move produces a position with only the two kings, or the
\* two kings and a single bishop, the status after that move is draw.
BareKingsOrSingleBishopIsDraw ==
    (Accepted /\ KingsAndAtMostOneBishop(game.board)) => game.gameState = "draw"

\* C10: a two-square horizontal king move is accepted only when the castling
\* right is set, the squares between king and rook are empty, the king is
\* not in check, and neither the square the king crosses nor the square it
\* lands on is attacked by an enemy piece, pawn diagonals included.
CastlingOnlyWhenSafe ==
    (/\ Accepted
     /\ LastMove.piece.type = "king"
     /\ LastMove.from.row = LastMove.to.row
     /\ Abs(LastMove.to.col - LastMove.from.col) = 2)
    => LET color == LastMove.piece.color
           row == LastMove.from.row
           kingCol == LastMove.from.col
           side == IF LastMove.to.col > kingCol THEN "kingside" ELSE "queenside"
           direction == IF side = "kingside" THEN 1 ELSE -1
           between == IF side = "kingside" THEN (kingCol + 1)..6 ELSE 1..(kingCol - 1)
       IN /\ before.castlingRights[color][side]
          /\ \A col \in between : before.board[row][col] = null
          /\ ~KingAttacked(before.board, color)
          /\ ~Attacked(before.board, Opponent(color), row, kingCol + direction)
          /\ ~Attacked(before.board, Opponent(color), row, kingCol + 2 * direction)


\* the home corner of the rooks of a colour on a side
HomeCorner(color, side) ==
    [row |-> IF color = "white" THEN 7 ELSE 0, col |-> IF side = "kingside" THEN 7 ELSE 0]

RookCaptureClearsRight ==
    \A side \in {"kingside", "queenside"} :
       (/\ Accepted
        /\ LastMove.captured # null
        /\ LastMove.captured.type = "rook"
        /\ LastMove.to = HomeCorner(LastMove.captured.color, side))
       => ~game.castlingRights[LastMove.captured.color][side]

\* C13: the en-passant target is set exactly when the last entry of the move
\* log is a two-square pawn advance, and then names the square the pawn
\* skipped; otherwise it is empty.
EnPassantTargetFollowsLastMove ==
    LET n == Len(game.moveHistory)
        m == game.moveHistory[n]
    IN IF n > 0 /\ m.piece.type = "pawn" /\ Abs(m.to.row - m.from.row) = 2
       THEN game.enPassantTarget = SquareKey((m.from.row + m.to.row) \div 2, m.from.col)
       ELSE game.enPassantTarget = nullStr

\* C14: an accepted makeMove sets the halfmove counter to 0 when the piece
\* moved was a pawn (a promoting pawn included) or a piece was captured (en
\* passant included), and otherwise adds exactly 1 to it.
HalfmoveCounterRule ==
    Accepted
    => LET m == LastMove
           pawnMoved == before.board[m.from.row][m.from.col].type = "pawn"
           captured == m.captured # null \/ m.enPassant # null
       IN game.fiftyMoveRule = IF pawnMoved \/ captured THEN 0 ELSE before.fiftyMoveRule + 1


\* C15: the board holds exactly one white king and exactly one black king
\* (a square holds one piece or none by the shape of the board).
OneKingOfEachColour ==
    \A color \in {"white", "black"} :
       Cardinality({rc \in Rows \X Cols : game.board[rc[1]][rc[2]] = Piece("king", color)}) = 1

\* C16: when makeMove moves a pawn to the last rank with a promotion type, the
\* destination holds a piece of that type and the mover's colour (a queen for
\* the default type), and a following undoMove puts a pawn of that colour on
\* the origin and the previous content on the destination.
PromotionThenUndo ==
    \A fromRow \in {1, 6}, fromCol \in Cols, toRow \in {0, 7}, toCol \in Cols :
       LET piece == game.board[fromRow][fromCol]
       IN (piece # null /\ piece.type = "pawn")
          => \A promotionPiece \in PromotionChoice(fromRow, fromCol, toRow) :
                LET out == makeMove(game, fromRow, fromCol, toRow, toCol, promotionPiece)
                    undone == undoMove(out.game)
                IN out.ret
                   => /\ out.game.board[toRow][toCol] = Piece(promotionPiece, piece.color)
                      /\ undone.ret /\ ~undone.err
                      /\ undone.game.board[fromRow][fromCol] = Piece("pawn", piece.color)
                      /\ undone.game.board[toRow][toCol] = game.board[toRow][toCol]

\* the pawn was promoted to a rook on g8 and the promotion was undone
PromotionUndone ==
    /\ Lines[line] = Promotion /\ free = 0 /\ pc = Len(Promotion) + 1
    /\ roundTrip
    /\ game.board[1][6] = Piece("pawn", "white")
    /\ game.board[0][6] = null

\* C17: undoMove called with an empty move log returns false, raises no error
\* and changes no field of the game.
UndoOnEmptyLogChangesNothing ==
    Len(game.moveHistory) = 0 => undoMove(game) = Outcome(game, FALSE, FALSE)

\* undoMove was called with an empty log
UndoOnEmptyLogSeen ==
    op = "undoMove" /\ ~ret /\ ~err /\ Len(game.moveHistory) = 0

RECURSIVE SumOfReplies(_, _)
\* the number of legal moves of the opponent, summed over the positions the
\* moves of the set lead to
SumOfReplies(g, moves) ==
    IF moves = {} THEN 0
    ELSE LET m == CHOOSE x \in moves : TRUE
             next == makeMove(g, m[1][1], m[1][2], m[2][1], m[2][2], "queen").game
         IN Cardinality(getAllValidMoves(next, next.currentPlayer))
            + SumOfReplies(g, moves \ {m})

\* C18: in the initial position getAllValidMoves returns exactly 20 moves for
\* White, and Black's legal moves summed over the 20 positions they lead to
\* are exactly 400.
InitialMoveCounts ==
    game = NewChessGame
    => /\ Cardinality(getAllValidMoves(game, "white")) = 20
       /\ SumOfReplies(game, getAllValidMoves(game, "white")) = 400

\* the game is in the initial position and White's moves have been listed
InitialPositionSeen ==
    /\ game = NewChessGame
    /\ getAllValidMoves(game, "white") # {}

\* C19: from the initial position the plies f2-f3, e7-e5, g2-g4, Qd8-h4 are
\* each accepted, and after the fourth the status is checkmate with White to
\* move.
FoolsMateIsCheckmate ==
    (Lines[line] = FoolsMate /\ free = 0 /\ pc > 1)
    => /\ Accepted
       /\ Len(game.moveHistory) = pc - 1
       /\ pc = Len(FoolsMate) + 1
          => game.gameState = "checkmate" /\ game.currentPlayer = "white"

\* the four plies of the fool's mate have been played
FoolsMatePlayed ==
    /\ Lines[line] = FoolsMate /\ free = 0 /\ pc = Len(FoolsMate) + 1
    /\ Len(game.moveHistory) = 4
    /\ LastMove.piece = Piece("queen", "black")


\* C20: from the call of getBestMove to its return, by the move of the most
\* visited child or by the fallback, every field of the game passed to it is
\* what it was at the call.
SearchLeavesGameUnchanged ==
    run.pc # "idle" => game = run.passed

\* a search made a simulation on clones of the game and returned a move
SearchReturnedMove ==
    /\ run.pc = "done" /\ ~run.threw
    /\ run.simulations >= 1
    /\ run.move # NoMove
    /\ Len(nodes) > 1

\* C22: a search on a game whose side to move has no legal move ends by
\* returning null (no move), and nothing is thrown on the way.
SearchWithoutMovesReturnsNull ==
    (/\ run.pc \in {"fallback", "done"}
     /\ getAllValidMoves(run.passed, run.passed.currentPlayer) = {})
    => ~run.threw /\ run.move = NoMove

RECURSIVE visitsOf(_, _)
\* the sum of the visit counts of the nodes listed
visitsOf(ns, children) ==
    IF children = <<>> THEN 0
    ELSE ns[Head(children)].visits + visitsOf(ns, Tail(children))

\* C23: when the game given to search has a legal move, after N >= 1
\* completed simulations the visit counts of the children of the root sum to
\* N, and the visit count of the root is N.
ChildVisitsSumToSimulations ==
    (/\ run.pc = "search"
     /\ run.simulations >= 1
     /\ getAllValidMoves(run.passed, run.passed.currentPlayer) # {})
    => /\ visitsOf(nodes, nodes[1].children) = run.simulations
       /\ nodes[1].visits = run.simulations

GetBestMoveReturnsValidMoveOrNull ==
    run.pc = "done"
    => IF getAllValidMoves(run.passed, run.passed.currentPlayer) = {}
       THEN run.move = NoMove
       ELSE run.move \in getAllValidMoves(run.passed, run.passed.currentPlayer)

\* search threw and getBestMove returned a valid move all the same
FallbackReturnedMove ==
    /\ run.pc = "done"
    /\ run.threw
    /\ run.move \in getAllValidMoves(run.passed, run.passed.currentPlayer)

\* C26: with an evaluator installed, a simulation on a leaf never visited
\* either returns the evaluation or, when the evaluator fails, goes on with
\* the rollout; the rollout then runs to its end, its value is backpropagated
\* from the leaf and the simulation counted, and search is back in its loop.
EvaluatorFailureFallsBackToRollout ==
    [][/\ (run.pc = "simulate" /\ run.neuralNetwork /\ nodes[run.leaf].visits = 0)
          => run'.pc \in {"search", "rollout"}
       /\ (run.pc = "rollout" /\ run.failed)
          => \/ run'.pc = "rollout" /\ run'.failed /\ run'.depth = run.depth + 1
             \/ /\ run'.pc = "search"
                /\ run'.simulations = run.simulations + 1
                /\ nodes'[run.leaf].visits = nodes[run.leaf].visits + 1]_vars

\* a simulation in which the evaluator failed was completed by a rollout of
\* at least one move
FailedEvaluationRolledOut ==
    /\ run.pc = "search"
    /\ run.failed
    /\ run.simulations >= 1
    /\ run.depth >= 1

\* C27: a call of makeMove that leaves a board without a king of some colour,
\* and so classifies that board in updateGameState and isInCheck, throws.
MissingKingIsHardError ==
    (/\ op = "makeMove"
     /\ \E color \in {"white", "black"} : findKing(game, color) = <<>>)
    => err

\* C30: the value added at a leaf is the value for the player to move at the
\* leaf's parent.  When a simulation without a returned evaluation ends on a
\* checkmate, the leaf's win accumulator gains 0 if the player checkmated is
\* the parent's mover, and 1 if the parent's mover gave the mate.
ValueIsForParentsMover ==
    [][(/\ run.pc = "rollout"
        /\ run'.pc = "search"
        /\ run.sim.game.gameState = "checkmate"
        /\ nodes[run.leaf].parent # 0)
       => nodes'[run.leaf].wins =
             IF run.sim.game.currentPlayer
                   = nodes[nodes[run.leaf].parent].gameState.game.currentPlayer
             THEN nodes[run.leaf].wins
             ELSE Plus(nodes[run.leaf].wins, <<1, 1>>)]_vars

\* C21: while a call of getAIMove made by makeAIMove is not yet resolved, a
\* step changes this.game (the object or its position) only by resolving a
\* call and applying its move, and then this.game is the object the search
\* was given, in the position it had at the call.
GameChangesOnlyByAppliedAIMove ==
    [][ui.searches # <<>>
       => \/ game' = game /\ ui'.gameId = ui.gameId
          \/ \E i \in DOMAIN ui.searches :
                /\ ui'.searches = Remove(ui.searches, i)
                /\ ui'.last = "aiMove"
                /\ ui'.gameId = ui.gameId
                /\ ui.searches[i].obj = ui.gameId
                /\ ui.searches[i].snapshot = game]_vars

\* C28: after ChessUI.undoMove has run, not blocked by isAIThinking, and has
\* taken a move back, the side to move is the player's colour.
UndoLeavesPlayerToMove ==
    (ui.last = "undoMove" /\ ui.undid) => game.currentPlayer = ui.playerColor

\* the game is not over and the side to move is not the player's colour
AIToMove ==
    /\ game.gameState \in {"playing", "check"}
    /\ game.currentPlayer # ui.playerColor

\* C29: whenever the game is not over and the side to move is the AI's, a
\* move of the AI is applied later, unless a user action has meanwhile taken
\* the turn away from the AI: the AI is never left to move for ever (timers
\* fire and calls of getAIMove resolve: SpecUI).
AIEventuallyMoves ==
    \A k \in 0..(MaxUserMoves + MaxNewGames) :
       [](( AIToMove /\ ui.aiMoves = k) => <>(ui.aiMoves > k \/ ~AIToMove))

\* the difference of two fractions
Minus(x, y) == Fraction(x[1] * y[2] - y[1] * x[2], x[2] * y[2])

RECURSIVE pathToRoot(_, _)
\* node n and its ancestors, the nearest first
pathToRoot(ns, n) == IF n = 0 THEN <<>> ELSE <<n>> \o pathToRoot(ns, ns[n].parent)

\* a simulation of the search ends: its result is backpropagated from the leaf
Backpropagates == run.pc \in {"simulate", "rollout"} /\ run'.pc = "search"

ChildrenDistinct(ns, n) ==
    LET children == ns[n].children
    IN /\ \A i \in DOMAIN children :
             /\ children[i] \in DOMAIN ns
             /\ ns[children[i]].parent = n
             /\ ns[children[i]].move # NoMove
       /\ \A i, j \in DOMAIN children :
             i # j => ns[children[i]].move # ns[children[j]].move
       /\ ns[n].isTerminal => children = <<>>

\* the children of node n are reached by valid moves of n's state, each
\* holds that state with its move made, and they are no more than the moves
ChildrenLegal(ns, n) ==
    \E g \in {ns[n].gameState.game} :
    \E validMoves \in {getAllValidMoves(g, g.currentPlayer)} :
       /\ Len(ns[n].children) <= Cardinality(validMoves)
       /\ \A i \in DOMAIN ns[n].children :
             \E child \in {ns[ns[n].children[i]]} :
                /\ child.move \in validMoves
                /\ \E out \in {makeMove(g, child.move[1][1], child.move[1][2],
                                        child.move[2][1], child.move[2][2], "queen")} :
                      out.ret /\ ~out.err /\ child.gameState.game = out.game

\* C32: at every point of a search the children of a node are reached by
\* pairwise distinct valid moves of the node's state, each child holds the
\* node's state with its move made, a node has no more children than valid
\* moves, and a terminal node has none.  A step of the search leaves the
\* state, the move and the parent of every node as they are, and the nodes
\* whose children it changes satisfy all of this after it.
ChildrenAreDistinctLegalMoves ==
    [][/\ \A n \in DOMAIN nodes' : ChildrenDistinct(nodes', n)
       /\ \A n \in DOMAIN nodes :
             /\ n \in DOMAIN nodes'
             /\ nodes'[n].gameState = nodes[n].gameState
             /\ nodes'[n].move = nodes[n].move
             /\ nodes'[n].parent = nodes[n].parent
             /\ nodes'[n].children # nodes[n].children => ChildrenLegal(nodes', n)]_vars

\* a second child was added to a node that is not terminal
SecondChildAdded ==
    \E n \in DOMAIN nodes :
       /\ Len(nodes[n].children) = 2
       /\ ~nodes[n].isTerminal
       /\ nodes[nodes[n].children[2]].gameState.game.currentPlayer
             # nodes[n].gameState.game.currentPlayer

\* C33: a rollout that ends in stalemate or draw is scored as one cut off at
\* the depth cap is: the leaf gains the share the leaf player's material has
\* in the material on the board, or one half when there is no material.
DrawnRolloutScoredByMaterial ==
    [][(/\ run.pc = "rollout"
        /\ run'.pc = "search"
        /\ run.sim.game.gameState \in {"stalemate", "draw"})
       => nodes'[run.leaf].wins =
             Plus(nodes[run.leaf].wins,
                  evaluateMaterial(run.sim.game,
                                   nodes[run.leaf].gameState.game.currentPlayer))]_vars

\* C34: a castling move that makeMove accepted found a rook of the castling
\* side's colour on the home corner of that side, and left it on the square
\* next to the king, the corner empty.
CastlingMovesOwnRook ==
    (Accepted /\ LastMove.castling # nullStr)
    => LET color == LastMove.piece.color
           corner == HomeCorner(color, LastMove.castling)
           rookToCol == IF LastMove.castling = "kingside" THEN 5 ELSE 3
       IN /\ before.board[corner.row][corner.col] = Piece("rook", color)
          /\ game.board[corner.row][rookToCol] = Piece("rook", color)
          /\ game.board[corner.row][corner.col] = null

\* C35: makeMove completes every en-passant capture isValidMove accepts
\* (the only place it can throw); the capture removes a pawn of the
\* opponent's colour, the one whose two-square advance is the entry before it
\* in the move log; and no accepted move adds a piece of the mover's colour
\* to the captured pieces.
EnPassantRemovesAdvancedPawn ==
    /\ op = "makeMove" => ~err
    /\ Accepted
       => /\ game.capturedPieces[LastMove.piece.color]
                = before.capturedPieces[LastMove.piece.color]
          /\ LastMove.enPassant # null
             => /\ LastMove.enPassant = Piece("pawn", Opponent(LastMove.piece.color))
                /\ Len(before.moveHistory) > 0
                /\ LET advance == before.moveHistory[Len(before.moveHistory)]
                   IN /\ advance.piece = LastMove.enPassant
                      /\ Abs(advance.to.row - advance.from.row) = 2
                      /\ advance.to.col = LastMove.to.col
                      /\ advance.to.row = LastMove.from.row

RECURSIVE piecesOf(_, _, _)
\* the number of pieces of a colour on the squares of a board
piecesOf(board, color, squares) ==
    IF squares = {} THEN 0
    ELSE LET rc == CHOOSE x \in squares : TRUE
             piece == board[rc[1]][rc[2]]
         IN (IF piece # null /\ piece.color = color THEN 1 ELSE 0)
            + piecesOf(board, color, squares \ {rc})

NoMoveAfterGameEnd ==
    Accepted => before.gameState \in {"playing", "check"}

\* C37: every move makeAIMove applies to this.game moves a piece of the
\* colour opposite to playerColor.
AIMovesOnlyItsOwnPieces ==
    [][ui'.aiMoves = ui.aiMoves + 1
       => game'.moveHistory[Len(game'.moveHistory)].piece.color # ui.playerColor]_vars

\* C38: a game that ended is stored at most once, and a record stored of it
\* holds the move log and the outcome the game had when it ended.
EndedGameStoredOnceWithItsOutcome ==
    \A e \in DOMAIN ui.ended :
       LET records == {r \in DOMAIN ui.stored : ui.stored[r].obj = ui.ended[e].obj}
       IN /\ Cardinality(records) <= 1
          /\ \A r \in records : ui.stored[r] = ui.ended[e]

\* the calls whose trainOnBatch run is in progress
Running(t) == {i \in DOMAIN t.calls : t.calls[i] \in {"fit", "save"}}

\* C40: at most one trainOnBatch run is in progress, and isTraining is true
\* exactly while one is, so it is false again after every run, successful or
\* failed; a call made while isTraining is true fails and changes neither
\* isTraining nor the other calls; and the counter of training sessions
\* changes only by one, when a call whose run succeeded goes on.
OneTrainingRunAtATime ==
    [][/\ Cardinality(Running(training')) <= 1
       /\ training'.isTraining <=> Running(training') # {}
       /\ (training.isTraining /\ Len(training'.calls) > Len(training.calls))
          => /\ training'.calls = Append(training.calls, "rejected")
             /\ training'.isTraining
             /\ training'.totalTrainingSessions = training.totalTrainingSessions
       /\ training'.totalTrainingSessions # training.totalTrainingSessions
          => /\ training'.totalTrainingSessions = training.totalTrainingSessions + 1
             /\ \E i \in DOMAIN training.calls :
                   training.calls[i] = "trained" /\ training'.calls[i] = "done"]_vars

\* a call was refused while a run begun after a failed one was in progress
RefusedWhileRunning ==
    \E i, j, k \in DOMAIN training.calls :
       /\ i < j /\ j < k
       /\ training.calls[i] = "failed"
       /\ training.calls[j] \in {"fit", "save"}
       /\ training.calls[k] = "rejected"
       /\ training.isTraining

====
